---- MODULE Spec2Model ----
(***************************************************************************)
(* Model of tagger.js (src/tagger.js): the persisted visitor state, the    *)
(* attribution parameters, and the remote synchronisation protocol of      *)
(* _syncRemoteData with its SYNC_LOCK.                                     *)
(*                                                                         *)
(* JavaScript runs one task at a time: every action below is one           *)
(* synchronous run of code, from a call or a resumed await up to the next  *)
(* await or return.  The await points of _syncRemoteData are the fetch,    *)
(* response.json() and the await of the recursive call.                    *)
(***************************************************************************)
EXTENDS Integers, Sequences, FiniteSets, TLC

\* ------------------------------------------------------------------ bounds
\* Number of top-level _syncRemoteData invocations that can be alive at once.
MaxCalls == 2
\* Largest clock reading / timestamp.
MaxTime == 2
\* Cap on the nesting of _syncRemoteData inside itself.
MaxDepth == 3
\* Cap on the count of completed syncs of a client.
MaxSynced == 2
\* Invocations of _retrieveUserID that may await createNewUserID at a time.
MaxRetrieves == 2

Calls == 1..MaxCalls
Times == 0..MaxTime
Retrieves == 1..MaxRetrieves

\* ------------------------------------------------------------------ values
\* A key that was never stored (no cookie, no localStorage item).
NULL == -1

\* The tracked parameter names (taggerConfig.userParams), and the values a
\* parameter takes.
ParamNames == {"utm_source"}

\* The value the page sets, and the value the remote record holds.
LocalValue == "a"
RemoteValue == "b"

\* An optional object: <<>> is null / undefined, <<m>> is the object m.
None == <<>>
Some(m) == <<m>>
IsSome(o) == Len(o) > 0
Get(o) == o[1]

\* obj?.timestamp || 0
timestampOf(o) ==
    IF IsSome(o) /\ "timestamp" \in DOMAIN Get(o) THEN Get(o)["timestamp"] ELSE 0

VARIABLES
    SYNC_LOCK,      \* tagger.SYNC_LOCK
    store,          \* the persisted keys (cookie + localStorage mirror)
    calls,          \* per invocation slot: the stack of _syncRemoteData frames
    requests,       \* per invocation slot: network requests issued so far
    taggerConfig,   \* window.taggerConfig
    location,       \* the tracked parameters in window.location.search
    paramCookies,   \* the __tg-param-* cookies
    now,            \* the last reading of new Date().getTime()
    emitted,        \* the events dispatched by the last step
    last,           \* the operation the last step ran, and its outcome
    synced,         \* the syncs of this client that ran to their end with a reply
    server,         \* the record the remote endpoint holds
    peer,           \* a second client of the same endpoint: its tagger and storage
    active,         \* which of the two clients the variables above describe
    creating,       \* per _retrieveUserID invocation: the currentTime it read, while
                    \* it awaits createNewUserID
    mainCallback,   \* tagger.mainCallback: null, or the function registered
    called,         \* the event names mainCallback was called with by the last step
    initPc,         \* where _init is: the await it is at, or that it does not run
    record,         \* the object handed to _prepareRemotePayload
    wire,           \* the payload made of record, once made
    decoded         \* what _decodeRemoteData made of the payload, once run

vars == <<SYNC_LOCK, store, calls, requests, taggerConfig, location,
          paramCookies, now, emitted, last, synced, server, peer, active,
          creating, mainCallback, called, initPc, record, wire, decoded>>

\* No payload made yet, and none decoded yet.
NotMade == [state |-> "none", data |-> <<>>]
NotRun == [state |-> "none", value |-> <<>>]

\* ------------------------------------------------------- the persisted keys
NumberKeys == {"userCreateTime", "updatedTime", "remoteUpdatedTime"}

EmptyStore ==
    [userID |-> "", userParams |-> None, userCreateTime |-> NULL,
     updatedTime |-> NULL, remoteUpdatedTime |-> NULL]

\* a || b on numbers.
Or(a, b) == IF a # 0 THEN a ELSE b

\* The synchronous code of one step runs on a world: the lock, the persisted
\* keys, the events dispatched so far in the step, the branch the code took
\* (what it logged), the registered callback and the calls made of it so far
\* in the step.
World ==
    [lock |-> SYNC_LOCK, store |-> store, events |-> <<>>, path |-> "none",
     callback |-> mainCallback, called |-> <<>>]

took(w, branch) == [w EXCEPT !.path = branch]

isLocked(w) == w.lock
lock(w) == [w EXCEPT !.lock = TRUE]
\* unlock() that leaves the flag as it is.
unlock_noop(w) == w

unlock(w) == [w EXCEPT !.lock = FALSE]

\* triggerEvent(window, eventName): a CustomEvent dispatched on window.
triggerEvent(w, eventName) == [w EXCEPT !.events = Append(@, eventName)]

\* registerCallback(callback): a function is kept, anything else refused.
registerCallback(w, callback) ==
    IF callback = "function" THEN [w EXCEPT !.callback = callback] ELSE w

\* fireCallback(eventName, data): the registered function is called, if any.
fireCallback(w, eventName) ==
    IF w.callback = "function" THEN [w EXCEPT !.called = Append(@, eventName)] ELSE w

\* storeData(key, value): refused while locked; otherwise the cookie and the
\* localStorage item of the key both hold the value.
storeData(w, key, value) ==
    IF isLocked(w) THEN w ELSE [w EXCEPT !.store[key] = value]

\* getData(key): the stored value, or null when nothing is stored or when the
\* stored value is falsy.  null is 0 for a number, "" for the id and None for
\* the params object.
getData(st, key) ==
    IF key \in NumberKeys
    THEN (IF st[key] > 0 THEN st[key] ELSE 0)
    ELSE st[key]

\* ----------------------------------------------------------- remote sync
\* _getSyncableData(): the four syncable keys; a key whose value is null is
\* left out of the object ("" / None / 0 here).
getSyncableData(st) ==
    [userID |-> getData(st, "userID"),
     userParams |-> getData(st, "userParams"),
     userCreateTime |-> getData(st, "userCreateTime"),
     updatedTime |-> getData(st, "updatedTime")]

\* Object.keys(localData).length
keyCount(d) ==
    (IF d.userID # "" THEN 1 ELSE 0) + (IF IsSome(d.userParams) THEN 1 ELSE 0)
      + (IF d.userCreateTime # 0 THEN 1 ELSE 0) + (IF d.updatedTime # 0 THEN 1 ELSE 0)

hasLocalData(localData) == keyCount(localData) >= 2

\* localData.updatedTime || localData.userParams?.timestamp || 0
localClock(localData) == Or(localData.updatedTime, timestampOf(localData.userParams))

\* isLocalDataNewer that takes an equal clock for a newer one.
isLocalDataNewer_orEqual(st, localData) ==
    LET localTime == localClock(localData)
        remoteUpdateTime == getData(st, "remoteUpdatedTime")
    IN  localTime >= remoteUpdateTime

isLocalDataNewer(st, localData) ==
    LET localTime == localClock(localData)
        remoteUpdateTime == getData(st, "remoteUpdatedTime")
    IN  localTime > remoteUpdateTime

\* isRemoteDataNewer that takes an equal clock for a newer one.
isRemoteDataNewer_orEqual(st, remoteData) ==
    LET localTime == Or(getData(st, "updatedTime"), timestampOf(getData(st, "userParams")))
        remoteTime == Or(remoteData.updatedTime, timestampOf(remoteData.userParams))
    IN  remoteTime >= localTime

\* isRemoteDataNewer that compares with the recorded remote clock.
isRemoteDataNewer_vsRemoteClock(st, remoteData) ==
    LET localTime == getData(st, "remoteUpdatedTime")
        remoteTime == Or(remoteData.updatedTime, timestampOf(remoteData.userParams))
    IN  remoteTime > localTime

isRemoteDataNewer(st, remoteData) ==
    LET localTime == Or(getData(st, "updatedTime"), timestampOf(getData(st, "userParams")))
        remoteTime == Or(remoteData.updatedTime, timestampOf(remoteData.userParams))
    IN  remoteTime > localTime

\* selectAction whose POST test leaves out the newer-than-remote case.
selectAction_forcedOnly(st, localData, forceUpdate) ==
    IF hasLocalData(localData) /\ forceUpdate THEN "POST"
    ELSE IF hasLocalData(localData) THEN "GET_CHECK" ELSE "GET_FULL"

\* The action _syncRemoteData selects (lines 449-454).
selectAction(st, localData, forceUpdate) ==
    LET default == IF hasLocalData(localData) /\ ~forceUpdate THEN "GET_CHECK" ELSE "GET_FULL"
    IN  IF hasLocalData(localData) /\ (forceUpdate \/ isLocalDataNewer(st, localData))
        THEN "POST"
        ELSE IF hasLocalData(localData) /\ ~isLocalDataNewer(st, localData)
             THEN "GET_CHECK"
             ELSE default

\* _applyRemoteData that merges the remote userParams into the stored ones.
applyRemoteData_merging(w, data) ==
    IF isLocked(w) THEN w
    ELSE LET old == getData(w.store, "userParams")
             merged == IF IsSome(old) /\ IsSome(data.userParams)
                       THEN Some([k \in DOMAIN Get(old) \cup DOMAIN Get(data.userParams) |->
                                    IF k \in DOMAIN Get(data.userParams)
                                    THEN Get(data.userParams)[k] ELSE Get(old)[k]])
                       ELSE data.userParams
             w1 == IF data.userID # "" THEN storeData(w, "userID", data.userID) ELSE w
             w2 == IF IsSome(data.userParams)
                   THEN storeData(w1, "userParams", merged) ELSE w1
             w3 == IF data.userCreateTime # 0
                   THEN storeData(w2, "userCreateTime", data.userCreateTime) ELSE w2
             w4 == IF data.updatedTime # 0
                   THEN storeData(w3, "updatedTime", data.updatedTime) ELSE w3
             w5 == IF data.updatedTime # 0
                   THEN storeData(w4, "remoteUpdatedTime", data.updatedTime) ELSE w4
         IN  triggerEvent(w5, "tagger:remoteSyncApplied")

\* _applyRemoteData(data)
applyRemoteData(w, data) ==
    IF isLocked(w) THEN w
    ELSE LET w1 == IF data.userID # "" THEN storeData(w, "userID", data.userID) ELSE w
             w2 == IF IsSome(data.userParams)
                   THEN storeData(w1, "userParams", data.userParams) ELSE w1
             w3 == IF data.userCreateTime # 0
                   THEN storeData(w2, "userCreateTime", data.userCreateTime) ELSE w2
             w4 == IF data.updatedTime # 0
                   THEN storeData(w3, "updatedTime", data.updatedTime) ELSE w3
             w5 == IF data.updatedTime # 0
                   THEN storeData(w4, "remoteUpdatedTime", data.updatedTime) ELSE w4
         IN  triggerEvent(w5, "tagger:remoteSyncApplied")

\* The test of line 430 with one of its two conditions enough.
remoteSyncEnabled_either(cfg) == cfg.remoteSync \/ cfg.remoteEndpoint # ""

\* Line 430: the flag and the endpoint are both set.
remoteSyncEnabled(cfg) == cfg.remoteSync /\ cfg.remoteEndpoint # ""

NoPayload == [userID |-> "", userParams |-> None, userCreateTime |-> 0, updatedTime |-> 0]

\* Lines 441-513, with the lock taken: the action is selected and its request
\* is issued.  The frame that awaits the fetch holds what the code uses after
\* the await (the action and the local clock of the snapshot), the record the
\* POST carries, and the reply once the server has made it.
syncRequest(w, forceUpdate) ==
    LET localData == getSyncableData(w.store)
        action == selectAction(w.store, localData, forceUpdate)
    IN  [w |-> w,
         frame |-> Some([pc |-> "fetch", action |-> action,
                         localUpdatedTime |->
                             IF action = "GET_CHECK" THEN localClock(localData) ELSE 0,
                         payload |-> IF action = "POST" THEN localData ELSE NoPayload,
                         reply |-> None]),
         outcome |-> action]

\* syncStart without the isLocked() test of line 434.
syncStart_unguarded(w, cfg, forceUpdate) ==
    IF ~remoteSyncEnabled(cfg) THEN [w |-> w, frame |-> None, outcome |-> "disabled"]
    ELSE syncRequest(lock(w), forceUpdate)

\* _syncRemoteData(forceUpdate) from its call to its first await: the world
\* it leaves, and the frame that awaits the fetch (None when it returned).
syncStart(w, cfg, forceUpdate) ==
    IF ~remoteSyncEnabled(cfg) THEN [w |-> w, frame |-> None, outcome |-> "disabled"]
    ELSE IF isLocked(w) THEN [w |-> w, frame |-> None, outcome |-> "dropped"]
    ELSE syncRequest(lock(w), forceUpdate)

\* ------------------------------------------------------- the remote server
\* The decoded data field of a reply: a record of the syncable keys, each
\* present or not.
RemoteIDs == {"idR"}

\* The userParams objects of a remote record: with or without a timestamp,
\* with or without a tracked parameter.
RemoteParamMaps ==
    {[k \in {"utm_source"} |-> RemoteValue]}
      \cup {[k \in {"timestamp"} |-> t] : t \in 1..MaxTime}
      \cup {[k \in {"timestamp", "utm_source"} |->
               IF k = "timestamp" THEN t ELSE RemoteValue] : t \in 1..MaxTime}
Payloads ==
    [userID : {""} \cup RemoteIDs,
     userParams : {None} \cup {Some(m) : m \in RemoteParamMaps},
     userCreateTime : {0, 1},
     updatedTime : Times]

\* The JSON body of a 2xx reply.  updated is true, false or missing;
\* updatedTime 0 is a missing or zero field; data is missing ("none"), a
\* string that does not decode ("bad"), or the encoding of payload ("ok").
Bodies ==
    [updated : {"true", "false", "undef"}, updatedTime : Times,
     data : {"none", "bad"}, payload : {NoPayload}]
      \cup [updated : {"true", "false", "undef"}, updatedTime : Times,
            data : {"ok"}, payload : Payloads]

\* The replies whose record, when there is one, is an id and a clock only.
ClockPayloads ==
    {p \in Payloads : p.userID # "" /\ p.userParams = None /\ p.userCreateTime = 0}

ClockBodies == {b \in Bodies : b.data = "ok" => b.payload \in ClockPayloads}

\* _decodeRemoteData(responseData.data): the decoded object, or null.
decodeRemoteData(body) == IF body.data = "ok" THEN Some(body.payload) ELSE None

\* postReply whose acknowledged branch also moves the local clock.
postReply_ackMovesClock(w, body) ==
    IF body.updated = "true"
    THEN took(storeData(storeData(unlock(w), "remoteUpdatedTime", body.updatedTime),
                        "updatedTime", body.updatedTime), "post-updated")
    ELSE took(w, "post-nodata")

\* Lines 471-496: the POST branch on a 2xx reply whose body parsed.
postReply(w, body) ==
    IF body.updated = "true"
    THEN took(storeData(unlock(w), "remoteUpdatedTime", body.updatedTime), "post-updated")
    ELSE IF body.data # "none"
         THEN LET w1 == unlock(w)
                  decodedData == decodeRemoteData(body)
              IN  IF IsSome(decodedData) /\ isRemoteDataNewer(w1.store, Get(decodedData))
                  THEN took(applyRemoteData(w1, Get(decodedData)), "post-applied")
                  ELSE took(storeData(w1, "remoteUpdatedTime", body.updatedTime),
                            IF IsSome(decodedData) THEN "post-stale" ELSE "post-invalid")
         ELSE took(w, "post-nodata")

\* The recursive call without its argument.
resync_unforced(w, cfg) == syncStart(w, cfg, FALSE)

\* Line 535: the recursive call, _syncRemoteData(true).
resync(w, cfg) == syncStart(w, cfg, TRUE)

\* Lines 515-538: does the GET branch re-sync on this reply?
getResyncs(frame, body) ==
    /\ body.data = "none"
    /\ body.updated = "false"
    /\ frame.action = "GET_CHECK"
    /\ frame.localUpdatedTime > body.updatedTime

\* getReply that applies the record without the unlock() of line 522.
getReply_appliesLocked(w, frame, body) ==
    IF body.data # "none"
    THEN LET decodedData == decodeRemoteData(body)
         IN  IF IsSome(decodedData) /\ isRemoteDataNewer(w.store, Get(decodedData))
             THEN took(applyRemoteData(w, Get(decodedData)), "get-applied")
             ELSE took(w, IF IsSome(decodedData) THEN "get-stale" ELSE "get-invalid")
    ELSE IF getResyncs(frame, body) THEN took(unlock(w), "get-resync")
         ELSE took(w, "get-nodata")

\* Lines 515-538: the GET branch on a 2xx reply whose body parsed, up to the
\* recursive call.
getReply(w, frame, body) ==
    IF body.data # "none"
    THEN LET decodedData == decodeRemoteData(body)
         IN  IF IsSome(decodedData) /\ isRemoteDataNewer(w.store, Get(decodedData))
             THEN took(applyRemoteData(unlock(w), Get(decodedData)), "get-applied")
             ELSE took(w, IF IsSome(decodedData) THEN "get-stale" ELSE "get-invalid")
    ELSE IF getResyncs(frame, body) THEN took(unlock(w), "get-resync")
         ELSE took(w, "get-nodata")

\* ------------------------------------------------------------ the actions
Top(i) == calls[i][Len(calls[i])]
Pop(i) == SubSeq(calls[i], 1, Len(calls[i]) - 1)
Idle(i) == calls[i] = <<>>

\* A new invocation takes the first free slot.
Free(i) == Idle(i) /\ \A j \in 1..(i - 1) : ~Idle(j)

\* The world a step leaves becomes the state.
Commit(w) ==
    \E v \in {w} :
        /\ SYNC_LOCK' = v.lock
        /\ store' = v.store
        /\ emitted' = v.events
        /\ mainCallback' = v.callback
        /\ called' = v.called

\* A top-level call of _syncRemoteData(forceUpdate): _init, a tick of the
\* auto-sync timer, or the page's own code.
SyncCall(i, forceUpdate) ==
    /\ Free(i)
    /\ \E r \in {syncStart(World, taggerConfig, forceUpdate)} :
           /\ Commit(r.w)
           /\ calls' = [calls EXCEPT ![i] = r.frame]
           /\ requests' = [requests EXCEPT ![i] = Len(r.frame)]
           /\ last' = [op |-> "sync", outcome |-> r.outcome]
    /\ UNCHANGED <<taggerConfig, location, paramCookies, now>>

\* A failed request: the non-2xx branch has no handling and the catch of line
\* 543 only logs; both run on to the unlock() of line 548 (line 501 on a POST).
failSilent_notifying(w) == triggerEvent(unlock(w), "tagger:remoteSyncApplied")

failSilent(w) == unlock(w)

\* The fetch of the top frame settles: it rejects ("throw"), or resolves to
\* a response that is not ok ("notok") or is ok ("ok").
FetchSettles(i, outcome) ==
    /\ ~Idle(i)
    /\ Top(i).pc = "fetch"
    /\ IF outcome = "ok"
       THEN /\ calls' = [calls EXCEPT ![i][Len(calls[i])].pc = "json"]
            /\ Commit(World)
            /\ UNCHANGED requests
       ELSE \* POST not ok: line 501; GET not ok and the catch: line 548.
            /\ Commit(failSilent(World))
            /\ calls' = [calls EXCEPT ![i] = Pop(i)]
            /\ requests' = [requests EXCEPT ![i] = IF Pop(i) = <<>> THEN 0 ELSE @]
    /\ last' = [op |-> "fetch", outcome |-> outcome]
    /\ UNCHANGED <<taggerConfig, location, paramCookies, now>>

\* response.json() of the top frame rejects, or the body is not an object
\* (reading a field of null throws): the catch of line 543, then line 548.
JsonThrows(i) ==
    /\ ~Idle(i)
    /\ Top(i).pc = "json"
    /\ Commit(failSilent(World))
    /\ calls' = [calls EXCEPT ![i] = Pop(i)]
    /\ requests' = [requests EXCEPT ![i] = IF Pop(i) = <<>> THEN 0 ELSE @]
    /\ last' = [op |-> "json", outcome |-> "throw"]
    /\ UNCHANGED <<taggerConfig, location, paramCookies, now>>

\* response.json() of the top frame resolves to body, and _syncRemoteData
\* runs on to its return, or to the await of the recursive call.
\* What that run leaves: the world, the frames of slot i, and the requests
\* slot i has issued.
jsonSettled(i, body) ==
    IF Top(i).action # "POST" /\ getResyncs(Top(i), body)
    THEN \* lines 534-535: unlock, then the call of _syncRemoteData(true)
         LET r == resync(getReply(World, Top(i), body), taggerConfig)
         IN  [w |-> took(r.w, "get-resync"),
              frames |-> [calls[i] EXCEPT ![Len(calls[i])].pc = "awaitRec"] \o r.frame,
              requests |-> requests[i] + Len(r.frame)]
    ELSE LET w == IF Top(i).action = "POST"
                  THEN postReply(World, body)
                  ELSE getReply(World, Top(i), body)
         IN  \* line 501 after a POST, line 548 after a GET
             [w |-> unlock(w),
              frames |-> Pop(i),
              requests |-> IF Pop(i) = <<>> THEN 0 ELSE requests[i]]

CanSettle(i, body) ==
    /\ ~Idle(i)
    /\ Top(i).pc = "json"
    /\ (Top(i).action # "POST" /\ getResyncs(Top(i), body)) => Len(calls[i]) < MaxDepth

JsonSettles(i, body) ==
    /\ CanSettle(i, body)
    /\ \E r \in {jsonSettled(i, body)} :
           /\ Commit(r.w)
           /\ calls' = [calls EXCEPT ![i] = r.frames]
           /\ requests' = [requests EXCEPT ![i] = r.requests]
           /\ last' = [op |-> "json", outcome |-> r.w.path]
    /\ UNCHANGED <<taggerConfig, location, paramCookies, now>>

\* The recursive call has returned: the awaiting frame resumes after line
\* 535 and runs to line 548.
Resume(i) ==
    /\ ~Idle(i)
    /\ Top(i).pc = "awaitRec"
    /\ Commit(unlock(World))
    /\ calls' = [calls EXCEPT ![i] = Pop(i)]
    /\ requests' = [requests EXCEPT ![i] = IF Pop(i) = <<>> THEN 0 ELSE @]
    /\ last' = [op |-> "resume", outcome |-> "return"]
    /\ UNCHANGED <<taggerConfig, location, paramCookies, now>>

\* ------------------------------------------------------ user parameters
EmptyMap == [k \in {} |-> LocalValue]

Put(m, k, v) == [x \in DOMAIN m \cup {k} |-> IF x = k THEN v ELSE m[x]]

\* A cookie value that atob / decodeURIComponent rejects.
BadCookie == "%"

\* getUserParams whose URL values replace the stored ones.
getUserParams_urlWins(w, t1, t2) ==
    LET stored == getData(w.store, "userParams")
        sp0 == IF IsSome(stored) THEN Get(stored) ELSE EmptyMap
        fromURL == {k \in ParamNames : k \in DOMAIN location}
        sp1 == [k \in DOMAIN sp0 \cup fromURL |->
                  IF k \in fromURL THEN location[k] ELSE sp0[k]]
        sp2 == Put(sp1, "timestamp", t1)
    IN  [w |-> storeData(storeData(w, "userParams", Some(sp2)), "updatedTime", t2),
         params |-> sp2,
         updated |-> TRUE]

\* getUserParams that stores whether or not it added anything.
getUserParams_alwaysStores(w, t1, t2) ==
    LET stored == getData(w.store, "userParams")
        sp0 == IF IsSome(stored) THEN Get(stored) ELSE EmptyMap
        sp2 == IF "timestamp" \in DOMAIN sp0 THEN sp0 ELSE Put(sp0, "timestamp", t1)
    IN  [w |-> storeData(storeData(w, "userParams", Some(sp2)), "updatedTime", t2),
         params |-> sp2,
         updated |-> TRUE]

\* getUserParams(): t1 and t2 are the readings of the clock at lines 283 and
\* 315.  The result is the world it leaves and the object it returns.
getUserParams(w, t1, t2) ==
    LET stored == getData(w.store, "userParams")
        sp0 == IF IsSome(stored) THEN Get(stored) ELSE EmptyMap
        fromURL == {k \in ParamNames : k \in DOMAIN location /\ k \notin DOMAIN sp0}
        sp1 == [k \in DOMAIN sp0 \cup fromURL |->
                  IF k \in DOMAIN sp0 THEN sp0[k] ELSE location[k]]
        noStamp == "timestamp" \notin DOMAIN sp1
        sp2 == IF noStamp THEN Put(sp1, "timestamp", t1) ELSE sp1
        fromCookie == {k \in DOMAIN paramCookies :
                         k \notin DOMAIN sp2 /\ paramCookies[k] # BadCookie}
        sp3 == [k \in DOMAIN sp2 \cup fromCookie |->
                  IF k \in DOMAIN sp2 THEN sp2[k] ELSE paramCookies[k]]
        updated == fromURL # {} \/ noStamp \/ fromCookie # {}
    IN  [w |-> IF updated
               THEN storeData(storeData(w, "userParams", Some(sp3)), "updatedTime", t2)
               ELSE w,
         params |-> sp3,
         updated |-> updated]

GetUserParams ==
    /\ \E t1 \in now..MaxTime : \E t2 \in t1..MaxTime :
         \E r \in {getUserParams(World, t1, t2)} :
             /\ Commit(r.w)
             /\ now' = IF r.updated THEN t2 ELSE now
             /\ last' = [op |-> "getUserParams",
                         outcome |-> IF r.updated THEN "updated" ELSE "same"]
    /\ UNCHANGED <<calls, requests, taggerConfig, location, paramCookies>>

\* setUserParam that leaves a parameter it finds set as it is.
setUserParam_keepsExisting(w, param, value, sync, t1, t2, t3) ==
    LET g == getUserParams(w, t1, t2)
        userParams == IF param \in DOMAIN g.params THEN g.params
                      ELSE Put(g.params, param, value)
        w1 == storeData(storeData(g.w, "userParams", Some(userParams)),
                        "updatedTime", t3)
    IN  IF sync THEN syncStart(w1, taggerConfig, FALSE)
        ELSE [w |-> w1, frame |-> None, outcome |-> "nosync"]

\* setUserParam(param, value, sync): t3 is the reading at line 342.  The
\* result is the world it leaves and the frame of the sync it started.
setUserParam(w, param, value, sync, t1, t2, t3) ==
    LET g == getUserParams(w, t1, t2)
        userParams == Put(g.params, param, value)
        w1 == storeData(storeData(g.w, "userParams", Some(userParams)),
                        "updatedTime", t3)
    IN  IF sync THEN syncStart(w1, taggerConfig, FALSE)
        ELSE [w |-> w1, frame |-> None, outcome |-> "nosync"]

\* A call of setUserParam; the sync it starts runs in slot i and is not
\* awaited.
SetUserParam(i, param, value, sync) ==
    /\ IF sync THEN Free(i) ELSE i = 1
    /\ \E t1 \in now..MaxTime : \E t2 \in t1..MaxTime : \E t3 \in t2..MaxTime :
         \E r \in {setUserParam(World, param, value, sync, t1, t2, t3)} :
             /\ Commit(r.w)
             /\ calls' = IF sync THEN [calls EXCEPT ![i] = r.frame] ELSE calls
             /\ requests' = IF sync THEN [requests EXCEPT ![i] = Len(r.frame)] ELSE requests
             /\ now' = t3
             /\ last' = [op |-> "setUserParam", outcome |-> r.outcome]
    /\ UNCHANGED <<taggerConfig, location, paramCookies>>

\* ------------------------------------------------------------ the user id
\* The ids createNewUserID derives: a digest of the ip, the user agent and the
\* time of the call, behind the prefix.
NewIDs == {"tg-1", "tg-2"}

\* A new invocation of _retrieveUserID takes the first free slot.
NotCreating(j) == creating[j] = None /\ \A k \in 1..(j - 1) : creating[k] # None

\* userExists() is _retrieveUserID(false).
calledAs(autoCreate) == IF autoCreate THEN "retrieveUserID" ELSE "userExists"

\* _retrieveUserID that creates an id whatever autoCreate is.
retrieveAwaits_always(st, autoCreate) == getData(st, "userID") = ""

\* _retrieveUserID(autoCreate) reaches the await of line 206.
retrieveAwaits(st, autoCreate) == getData(st, "userID") = "" /\ autoCreate

\* _retrieveUserID(autoCreate) from its call to its return, or to the await
\* of createNewUserID with the currentTime of line 205.  userExists() is the
\* call with autoCreate false.
RetrieveUserID(j, autoCreate) ==
    /\ NotCreating(j)
    /\ IF retrieveAwaits(store, autoCreate)
       THEN \E currentTime \in now..MaxTime :
              /\ creating' = [creating EXCEPT ![j] = Some(currentTime)]
              /\ now' = currentTime
              /\ last' = [op |-> calledAs(autoCreate), outcome |-> "await"]
       ELSE /\ creating' = creating
            /\ now' = now
            /\ last' = [op |-> calledAs(autoCreate),
                        outcome |-> IF getData(store, "userID") = "" THEN "null"
                                    ELSE getData(store, "userID")]
    /\ Commit(World)
    /\ UNCHANGED <<calls, requests, taggerConfig, location, paramCookies>>

\* Lines 208-219, after createNewUserID resolved to userID: the three keys
\* are stored, setUserParam("timestamp", currentTime, false) runs with the
\* readings t1, t2, t3 of the clock, the event is dispatched and
\* _syncRemoteData() is called and not awaited.
userIDCreated(w, cfg, userID, currentTime, t1, t2, t3) ==
    LET w1 == storeData(w, "userID", userID)
        w2 == storeData(w1, "userCreateTime", currentTime)
        w3 == storeData(w2, "updatedTime", currentTime)
        s == setUserParam(w3, "timestamp", currentTime, FALSE, t1, t2, t3)
        w4 == triggerEvent(s.w, "tagger:userIDCreated")
    IN  syncStart(w4, cfg, FALSE)

\* createNewUserID resolves and invocation j of _retrieveUserID runs to its
\* return; the sync it starts runs in slot i.
UserIDCreated(j, i, userID) ==
    /\ creating[j] # None
    /\ \E t1 \in now..MaxTime : \E t2 \in t1..MaxTime : \E t3 \in t2..MaxTime :
         \E r \in {userIDCreated(World, taggerConfig, userID, Get(creating[j]), t1, t2, t3)} :
             /\ r.frame # None => Free(i)
             /\ Commit(r.w)
             /\ calls' = IF r.frame # None THEN [calls EXCEPT ![i] = r.frame] ELSE calls
             /\ requests' = IF r.frame # None THEN [requests EXCEPT ![i] = 1] ELSE requests
             /\ now' = t3
             /\ last' = [op |-> "userIDCreated", outcome |-> userID]
    /\ creating' = [creating EXCEPT ![j] = None]
    /\ UNCHANGED <<taggerConfig, location, paramCookies>>

\* ---------------------------------------------------------- specification
\* No payload is being made or decoded.
NoRecord == record = <<>> /\ wire = NotMade /\ decoded = NotRun

\* No second client.
NoPeer ==
    [lock |-> FALSE, store |-> EmptyStore, calls |-> [i \in Calls |-> <<>>],
     requests |-> [i \in Calls |-> 0], synced |-> 0]

Configs == [remoteSync : BOOLEAN, remoteEndpoint : {"", "https://endpoint"}]

NoMap == EmptyMap

Init ==
    /\ SYNC_LOCK = FALSE
    /\ store = EmptyStore
    /\ calls = [i \in Calls |-> <<>>]
    /\ requests = [i \in Calls |-> 0]
    /\ taggerConfig \in Configs
    /\ location = NoMap
    /\ paramCookies = NoMap
    /\ now = 1
    /\ emitted = <<>>
    /\ last = [op |-> "load", outcome |-> "none"]
    /\ synced = 0
    /\ server = None
    /\ peer = NoPeer
    /\ active = 1
    /\ creating = [j \in Retrieves |-> None]
    /\ mainCallback = "null"
    /\ called = <<>>
    /\ initPc = "none"
    /\ NoRecord

\* The steps of Next and NextSeq are those of one client, whatever the
\* server holds.
OneClient == UNCHANGED <<synced, server, peer, active>>

\* The steps that are not of _retrieveUserID leave its invocations alone.
NoRetrieve == UNCHANGED creating

\* The steps that are not of _init leave its position alone.
NoInit == UNCHANGED initPc

\* The steps that make or decode no payload.
NoCodec == UNCHANGED <<record, wire, decoded>>

\* The steps of the page's calls on one client, after _init.
OnePage == OneClient /\ NoInit /\ NoCodec

\* Overlapping invocations, against a server whose records are an id and a
\* clock.
Next ==
    \/ \E i \in Calls, forceUpdate \in BOOLEAN : SyncCall(i, forceUpdate)
    \/ \E i \in Calls, outcome \in {"throw", "notok", "ok"} : FetchSettles(i, outcome)
    \/ \E i \in Calls : JsonThrows(i)
    \/ \E i \in Calls, body \in ClockBodies : JsonSettles(i, body)
    \/ \E i \in Calls : Resume(i)
    \/ GetUserParams
    \/ \E i \in Calls, param \in ParamNames, value \in {LocalValue}, sync \in BOOLEAN :
         SetUserParam(i, param, value, sync)

Spec == Init /\ [][Next /\ OnePage /\ NoRetrieve]_vars

\* One invocation at a time (each call is awaited before the next is made),
\* against a server that replies with any record.
NextSeq ==
    \/ \E forceUpdate \in BOOLEAN : SyncCall(1, forceUpdate)
    \/ \E outcome \in {"throw", "notok", "ok"} : FetchSettles(1, outcome)
    \/ JsonThrows(1)
    \/ \E body \in Bodies : JsonSettles(1, body)
    \/ Resume(1)
    \/ GetUserParams
    \/ \E param \in ParamNames, value \in {LocalValue}, sync \in BOOLEAN :
         SetUserParam(1, param, value, sync)

SpecSeq == Init /\ [][NextSeq /\ OnePage /\ NoRetrieve]_vars

\* One sync at a time and the calls of _retrieveUserID, which overlap it at
\* the await of createNewUserID.
NextId ==
    \/ \E j \in Retrieves, autoCreate \in BOOLEAN : RetrieveUserID(j, autoCreate) /\ OnePage
    \/ \E j \in Retrieves, userID \in NewIDs : UserIDCreated(j, 1, userID) /\ OnePage
    \/ SyncCall(1, FALSE) /\ OnePage /\ NoRetrieve
    \/ \E outcome \in {"throw", "notok", "ok"} :
         FetchSettles(1, outcome) /\ OnePage /\ NoRetrieve
    \/ JsonThrows(1) /\ OnePage /\ NoRetrieve
    \/ \E body \in ClockBodies : JsonSettles(1, body) /\ OnePage /\ NoRetrieve
    \/ Resume(1) /\ OnePage /\ NoRetrieve
    \/ GetUserParams /\ OnePage /\ NoRetrieve
    \/ \E param \in ParamNames, sync \in BOOLEAN :
         SetUserParam(1, param, LocalValue, sync) /\ OnePage /\ NoRetrieve

SpecId == Init /\ [][NextId]_vars

\* The page registers a callback: a function, or something that is not one.
RegisterCallback(callback) ==
    /\ Commit(registerCallback(World, callback))
    /\ last' = [op |-> "registerCallback",
                outcome |-> IF callback = "function" THEN "true" ELSE "false"]
    /\ UNCHANGED <<calls, requests, taggerConfig, location, paramCookies, now>>

\* The listeners _bindEvents installs: the submit of a .tg-form-submit form
\* ("tagger-submit") and a click on a .tg-conv-click element ("tagger-click",
\* after doParamsSwap, which rewrites links of the document only).
Listener(eventName) ==
    /\ Commit(fireCallback(World, eventName))
    /\ last' = [op |-> "listener", outcome |-> eventName]
    /\ UNCHANGED <<calls, requests, taggerConfig, location, paramCookies, now>>

\* A page that registers a callback at any time, whose user clicks and
\* submits, and on which ids are created and remote records applied.
NextNotify ==
    \/ \E callback \in {"function", "object"} :
         RegisterCallback(callback) /\ OnePage /\ NoRetrieve
    \/ \E eventName \in {"tagger-submit", "tagger-click"} :
         Listener(eventName) /\ OnePage /\ NoRetrieve
    \/ RetrieveUserID(1, TRUE) /\ OnePage
    \/ \E userID \in NewIDs : UserIDCreated(1, 1, userID) /\ OnePage
    \/ SyncCall(1, FALSE) /\ OnePage /\ NoRetrieve
    \/ \E outcome \in {"throw", "notok", "ok"} :
         FetchSettles(1, outcome) /\ OnePage /\ NoRetrieve
    \/ JsonThrows(1) /\ OnePage /\ NoRetrieve
    \/ \E body \in ClockBodies : JsonSettles(1, body) /\ OnePage /\ NoRetrieve
    \/ Resume(1) /\ OnePage /\ NoRetrieve

SpecNotify == Init /\ [][NextNotify]_vars

\* ------------------------------------------------------------------ _init
\* _init that does not await the promise of _syncRemoteData().
initAwaitsSync_never(frames) == FALSE

\* Line 46: _init is suspended while the sync it called has not returned.
initAwaitsSync(frames) == frames # <<>>

\* The script is loaded and _init is called: a bot is turned away, anybody
\* else reaches the await of userExists() (line 36).
InitCalled(isBot) ==
    /\ initPc = "start"
    /\ IF isBot
       THEN /\ initPc' = "bot"
            /\ last' = [op |-> "init", outcome |-> "bot"]
            /\ Commit(World)
            /\ UNCHANGED <<calls, requests, taggerConfig, location, paramCookies, now,
                           creating>>
       ELSE /\ initPc' = "userExists"
            /\ RetrieveUserID(1, FALSE)

\* Lines 37-54 after userExists() resolved: with remote sync configured
\* _syncRemoteData() is called and awaited, otherwise _retrieveUserID() is.
InitUserExists ==
    /\ initPc = "userExists"
    /\ IF remoteSyncEnabled(taggerConfig)
       THEN /\ SyncCall(1, FALSE)
            /\ initPc' = "sync"
            /\ UNCHANGED creating
       ELSE /\ RetrieveUserID(1, TRUE)
            /\ initPc' = "retrieve"

\* Line 54 after the sync returned (or threw, line 47): _retrieveUserID().
InitSynced ==
    /\ initPc = "sync"
    /\ ~initAwaitsSync(calls[1])
    /\ RetrieveUserID(1, TRUE)
    /\ initPc' = "retrieve"

\* Lines 55-80 after _retrieveUserID() resolved: getUserParams(), and the
\* auto-sync timer when taggerConfig.autoSyncInterval is above zero.
InitRetrieved(autoSyncInterval) ==
    /\ initPc = "retrieve"
    /\ creating[1] = None
    /\ GetUserParams
    /\ initPc' = IF autoSyncInterval > 0 THEN "autoSync" ELSE "ready"
    /\ UNCHANGED creating

\* taggerConfig.autoSyncInterval: missing or 0, or a period.
Intervals == {0, 300000}

\* The script has just been loaded on a first visit.
InitLoad ==
    /\ SYNC_LOCK = FALSE
    /\ store = EmptyStore
    /\ calls = [i \in Calls |-> <<>>]
    /\ requests = [i \in Calls |-> 0]
    /\ taggerConfig \in Configs
    /\ location = NoMap
    /\ paramCookies = NoMap
    /\ now = 1
    /\ emitted = <<>>
    /\ last = [op |-> "load", outcome |-> "none"]
    /\ synced = 0
    /\ server = None
    /\ peer = NoPeer
    /\ active = 1
    /\ creating = [j \in Retrieves |-> None]
    /\ mainCallback = "null"
    /\ called = <<>>
    /\ initPc = "start"
    /\ NoRecord

\* _init alone, against a server that replies with any record, and the
\* replies to the sync that the creation of an id starts.
NextInit ==
    \/ \E isBot \in BOOLEAN : InitCalled(isBot) /\ OneClient /\ NoCodec
    \/ InitUserExists /\ OneClient /\ NoCodec
    \/ InitSynced /\ OneClient /\ NoCodec
    \/ \E userID \in NewIDs : UserIDCreated(1, 1, userID) /\ OneClient /\ NoCodec /\ NoInit
    \/ \E autoSyncInterval \in Intervals :
         InitRetrieved(autoSyncInterval) /\ OneClient /\ NoCodec
    \/ \E outcome \in {"throw", "notok", "ok"} : FetchSettles(1, outcome) /\ OnePage /\ NoRetrieve
    \/ JsonThrows(1) /\ OnePage /\ NoRetrieve
    \/ \E body \in Bodies : JsonSettles(1, body) /\ OnePage /\ NoRetrieve
    \/ Resume(1) /\ OnePage /\ NoRetrieve

SpecInit == InitLoad /\ [][NextInit]_vars

\* ---------------------------------------------------- the auto-sync timer
\* The record of a visitor whose id was created at time 1.
VisitorStore(t, r) ==
    [userID |-> "tg-1",
     userParams |-> Some([k \in {"timestamp"} |-> 1]),
     userCreateTime |-> 1, updatedTime |-> t, remoteUpdatedTime |-> r]

\* _init is through on a page with remote sync and the timer configured.
InitTimer ==
    /\ SYNC_LOCK = FALSE
    /\ \E t \in 1..MaxTime : \E r \in {NULL} \cup Times :
         /\ store = VisitorStore(t, r)
         /\ now = t
    /\ calls = [i \in Calls |-> <<>>]
    /\ requests = [i \in Calls |-> 0]
    /\ taggerConfig = [remoteSync |-> TRUE, remoteEndpoint |-> "https://endpoint"]
    /\ location = NoMap
    /\ paramCookies = NoMap
    /\ emitted = <<>>
    /\ last = [op |-> "load", outcome |-> "none"]
    /\ synced = 0
    /\ server = None
    /\ peer = NoPeer
    /\ active = 1
    /\ creating = [j \in Retrieves |-> None]
    /\ mainCallback = "null"
    /\ called = <<>>
    /\ initPc = "autoSync"
    /\ NoRecord

\* Lines 73-75: the timer fires and its callback calls _syncRemoteData().
TimerTick(i) ==
    /\ initPc = "autoSync"
    /\ SyncCall(i, FALSE)
    /\ OnePage /\ NoRetrieve

\* The request or the body the top frame of slot i awaits settles, or the
\* recursive call it awaits returns.
Settles(i) ==
    /\ \/ \E outcome \in {"throw", "notok", "ok"} : FetchSettles(i, outcome)
       \/ JsonThrows(i)
       \/ \E body \in ClockBodies : JsonSettles(i, body)
       \/ Resume(i)
    /\ OnePage /\ NoRetrieve

\* The page's code sets a parameter, at a later reading of the clock than
\* any before.
PageSets(i, sync) ==
    /\ now < MaxTime
    /\ SetUserParam(i, "utm_source", LocalValue, sync)
    /\ now' > now
    /\ OnePage /\ NoRetrieve

NextTimer ==
    \/ \E i \in Calls : TimerTick(i)
    \/ \E i \in Calls : Settles(i)
    \/ \E i \in Calls, sync \in BOOLEAN : PageSets(i, sync)

SpecTimer == InitTimer /\ [][NextTimer]_vars

\* setInterval keeps firing, and every fetch, every response.json() and
\* every awaited call settles.
FairTimer ==
    /\ SpecTimer
    /\ WF_vars(\E i \in Calls : TimerTick(i))
    /\ \A i \in Calls : WF_vars(Settles(i))

\* ------------------------------------------------- the payload of a POST
\* Texts are sequences of UTF-16 code units, as JavaScript strings are.  A
\* JSON value is a string, a number or an object; an object is the sequence
\* of its members in insertion order.
JStr(t) == [t |-> "string", v |-> t]
JNum(n) == [t |-> "number", v |-> n]
JObj(members) == [t |-> "object", v |-> members]
Pair(key, value) == [k |-> key, v |-> value]

\* The values of the key in an object's members: none or one.
Member(members, key) ==
    {members[i].v : i \in {j \in 1..Len(members) : members[j].k = key}}

IsHigh(c) == c >= 55296 /\ c <= 56319
IsLow(c) == c >= 56320 /\ c <= 57343

UpperHex(d) == IF d < 10 THEN 48 + d ELSE 55 + d
LowerHex(d) == IF d < 10 THEN 48 + d ELSE 87 + d

\* The value of a hexadecimal digit, -1 for any other character.
HexVal(c) ==
    IF c >= 48 /\ c <= 57 THEN c - 48
    ELSE IF c >= 65 /\ c <= 70 THEN c - 55
    ELSE IF c >= 97 /\ c <= 102 THEN c - 87
    ELSE 0 - 1

\* JSON.stringify: the escapes of a string.  Quote and backslash, the control
\* characters, and a surrogate that has no partner (well-formed stringify).
ShortEscape(c) ==
    IF c = 8 THEN 98 ELSE IF c = 9 THEN 116 ELSE IF c = 10 THEN 110
    ELSE IF c = 12 THEN 102 ELSE IF c = 13 THEN 114 ELSE 0

UnicodeEscape(c) ==
    <<92, 117, LowerHex(c \div 4096), LowerHex((c \div 256) % 16),
      LowerHex((c \div 16) % 16), LowerHex(c % 16)>>

RECURSIVE escapeFrom(_, _)
escapeFrom(t, i) ==
    IF i > Len(t) THEN <<>>
    ELSE LET c == t[i]
         IN  IF c = 34 \/ c = 92 THEN <<92, c>> \o escapeFrom(t, i + 1)
             ELSE IF c < 32
                  THEN (IF ShortEscape(c) # 0 THEN <<92, ShortEscape(c)>>
                        ELSE UnicodeEscape(c)) \o escapeFrom(t, i + 1)
             ELSE IF IsHigh(c) /\ i < Len(t) /\ IsLow(t[i + 1])
                  THEN <<c, t[i + 1]>> \o escapeFrom(t, i + 2)
             ELSE IF IsHigh(c) \/ IsLow(c)
                  THEN UnicodeEscape(c) \o escapeFrom(t, i + 1)
             ELSE <<c>> \o escapeFrom(t, i + 1)

quote(t) == <<34>> \o escapeFrom(t, 1) \o <<34>>

RECURSIVE digits(_)
digits(n) == IF n < 10 THEN <<48 + n>> ELSE digits(n \div 10) \o <<48 + (n % 10)>>

\* JSON.stringify(value)
RECURSIVE stringify(_)
RECURSIVE stringifyMembers(_, _)
stringify(value) ==
    IF value.t = "string" THEN quote(value.v)
    ELSE IF value.t = "number" THEN digits(value.v)
    ELSE <<123>> \o stringifyMembers(value.v, 1) \o <<125>>

stringifyMembers(members, i) ==
    IF i > Len(members) THEN <<>>
    ELSE (IF i > 1 THEN <<44>> ELSE <<>>)
           \o quote(members[i].k) \o <<58>> \o stringify(members[i].v)
           \o stringifyMembers(members, i + 1)

\* A text, or the exception thrown instead.
Thrown == [ok |-> FALSE, text |-> <<>>]
Text(t) == [ok |-> TRUE, text |-> t]

\* The characters encodeURIComponent leaves as they are:
\* A-Z a-z 0-9 - _ . ! ~ * ' ( )
Unreserved(c) ==
    \/ c >= 65 /\ c <= 90
    \/ c >= 97 /\ c <= 122
    \/ c >= 48 /\ c <= 57
    \/ c \in {45, 95, 46, 33, 126, 42, 39, 40, 41}

\* The UTF-8 bytes of a code point.
Utf8(cp) ==
    IF cp < 128 THEN <<cp>>
    ELSE IF cp < 2048 THEN <<192 + (cp \div 64), 128 + (cp % 64)>>
    ELSE IF cp < 65536
         THEN <<224 + (cp \div 4096), 128 + ((cp \div 64) % 64), 128 + (cp % 64)>>
    ELSE <<240 + (cp \div 262144), 128 + ((cp \div 4096) % 64),
           128 + ((cp \div 64) % 64), 128 + (cp % 64)>>

RECURSIVE percent(_, _)
percent(bytes, i) ==
    IF i > Len(bytes) THEN <<>>
    ELSE <<37, UpperHex(bytes[i] \div 16), UpperHex(bytes[i] % 16)>> \o percent(bytes, i + 1)

\* The pieces of a text, put together.
RECURSIVE Flat(_, _, _)
Flat(pieces, lo, hi) ==
    IF lo > hi THEN <<>>
    ELSE IF lo = hi THEN pieces[lo]
    ELSE Flat(pieces, lo, (lo + hi) \div 2) \o Flat(pieces, ((lo + hi) \div 2) + 1, hi)

\* encodeURIComponent(t): what the character at position i becomes.  A pair
\* of surrogates is one code point, written at its first half.
encodedAt(t, i) ==
    LET c == t[i]
    IN  IF Unreserved(c) THEN <<c>>
        ELSE IF IsHigh(c)
             THEN IF i < Len(t) /\ IsLow(t[i + 1])
                  THEN percent(Utf8(65536 + (c - 55296) * 1024 + (t[i + 1] - 56320)), 1)
                  ELSE <<>>
        ELSE IF IsLow(c) THEN <<>>
        ELSE percent(Utf8(c), 1)

\* A surrogate without its partner: encodeURIComponent throws URIError.
LoneSurrogate(t, i) ==
    \/ IsHigh(t[i]) /\ ~(i < Len(t) /\ IsLow(t[i + 1]))
    \/ IsLow(t[i]) /\ ~(i > 1 /\ IsHigh(t[i - 1]))

encodeURIComponent(t) ==
    IF \E i \in 1..Len(t) : LoneSurrogate(t, i) THEN Thrown
    ELSE Text(Flat([i \in 1..Len(t) |-> encodedAt(t, i)], 1, Len(t)))

\* The base64 alphabet.
B64Char(v) ==
    IF v < 26 THEN 65 + v
    ELSE IF v < 52 THEN 71 + v
    ELSE IF v < 62 THEN v - 4
    ELSE IF v = 62 THEN 43 ELSE 47

B64Val(c) ==
    IF c >= 65 /\ c <= 90 THEN c - 65
    ELSE IF c >= 97 /\ c <= 122 THEN c - 71
    ELSE IF c >= 48 /\ c <= 57 THEN c + 4
    ELSE IF c = 43 THEN 62
    ELSE IF c = 47 THEN 63
    ELSE 0 - 1

\* The four characters of the group of up to three bytes that starts at i.
b64Group(t, i) ==
    LET n == Len(t) - i + 1
    IN  IF n = 1
        THEN <<B64Char(t[i] \div 4), B64Char((t[i] % 4) * 16), 61, 61>>
        ELSE IF n = 2
             THEN <<B64Char(t[i] \div 4),
                    B64Char((t[i] % 4) * 16 + (t[i + 1] \div 16)),
                    B64Char((t[i + 1] % 16) * 4), 61>>
        ELSE <<B64Char(t[i] \div 4),
               B64Char((t[i] % 4) * 16 + (t[i + 1] \div 16)),
               B64Char((t[i + 1] % 16) * 4 + (t[i + 2] \div 64)),
               B64Char(t[i + 2] % 64)>>

\* btoa(t): InvalidCharacterError on a character above 255.
btoa(t) ==
    LET groups == (Len(t) + 2) \div 3
    IN  IF \E i \in 1..Len(t) : t[i] > 255 THEN Thrown
        ELSE Text(Flat([g \in 1..groups |-> b64Group(t, 3 * (g - 1) + 1)], 1, groups))

\* The up to three bytes of the group of up to four characters that starts
\* at i.
unb64Group(t, i) ==
    LET n == Len(t) - i + 1
    IN  IF n = 2
        THEN <<B64Val(t[i]) * 4 + (B64Val(t[i + 1]) \div 16)>>
        ELSE IF n = 3
             THEN <<B64Val(t[i]) * 4 + (B64Val(t[i + 1]) \div 16),
                    (B64Val(t[i + 1]) % 16) * 16 + (B64Val(t[i + 2]) \div 4)>>
        ELSE <<B64Val(t[i]) * 4 + (B64Val(t[i + 1]) \div 16),
               (B64Val(t[i + 1]) % 16) * 16 + (B64Val(t[i + 2]) \div 4),
               (B64Val(t[i + 2]) % 4) * 64 + B64Val(t[i + 3])>>

\* atob(t): the padding of a text whose length is a multiple of four is
\* dropped; a length of 1 modulo 4 or a character outside the alphabet throws.
atob(t) ==
    LET pad == IF Len(t) % 4 = 0 /\ Len(t) >= 2 /\ t[Len(t)] = 61
               THEN (IF t[Len(t) - 1] = 61 THEN 2 ELSE 1)
               ELSE 0
        body == SubSeq(t, 1, Len(t) - pad)
        groups == (Len(body) + 3) \div 4
    IN  IF Len(body) % 4 = 1 \/ \E i \in 1..Len(body) : B64Val(body[i]) < 0
        THEN Thrown
        ELSE Text(Flat([g \in 1..groups |-> unb64Group(body, 4 * (g - 1) + 1)], 1, groups))

\* The byte written %XX at position i, -1 when there is none.
ByteAt(t, i) ==
    IF i + 2 <= Len(t) /\ t[i] = 37 /\ HexVal(t[i + 1]) >= 0 /\ HexVal(t[i + 2]) >= 0
    THEN 16 * HexVal(t[i + 1]) + HexVal(t[i + 2])
    ELSE 0 - 1

\* The six bits of the continuation byte written at position i, -1 when
\* there is none.
Continuation(t, i) ==
    IF i >= 1 /\ ByteAt(t, i) >= 128 /\ ByteAt(t, i) <= 191 THEN ByteAt(t, i) - 128
    ELSE 0 - 1

\* The UTF-16 units of a code point.
Units(cp) ==
    IF cp < 65536 THEN <<cp>>
    ELSE <<55296 + ((cp - 65536) \div 1024), 56320 + ((cp - 65536) % 1024)>>

\* How many bytes the UTF-8 sequence has that byte b leads; 0 when b leads
\* none.
Leads(b) ==
    IF b >= 0 /\ b < 128 THEN 1
    ELSE IF b >= 194 /\ b <= 223 THEN 2
    ELSE IF b >= 224 /\ b <= 239 THEN 3
    ELSE IF b >= 240 /\ b <= 244 THEN 4
    ELSE 0

\* The code point of the sequence that the byte at position i leads, -1 when
\* its continuation bytes are missing or the code point is not one UTF-8
\* writes in that many bytes.
CodePointAt(t, i) ==
    LET b == ByteAt(t, i)
        c1 == Continuation(t, i + 3)
        c2 == Continuation(t, i + 6)
        c3 == Continuation(t, i + 9)
    IN  IF Leads(b) = 1 THEN b
        ELSE IF Leads(b) = 2
             THEN (IF c1 < 0 THEN 0 - 1 ELSE (b - 192) * 64 + c1)
        ELSE IF Leads(b) = 3
             THEN LET cp == (b - 224) * 4096 + c1 * 64 + c2
                  IN  IF c1 < 0 \/ c2 < 0 \/ cp < 2048 \/ IsHigh(cp) \/ IsLow(cp)
                      THEN 0 - 1 ELSE cp
        ELSE IF Leads(b) = 4
             THEN LET cp == (b - 240) * 262144 + c1 * 4096 + c2 * 64 + c3
                  IN  IF c1 < 0 \/ c2 < 0 \/ c3 < 0 \/ cp < 65536 \/ cp > 1114111
                      THEN 0 - 1 ELSE cp
        ELSE 0 - 1

\* The continuation byte at position i belongs to the sequence of a leading
\* byte before it.
Led(t, i) ==
    \E k \in 1..3 :
        /\ i - 3 * k >= 1
        /\ Leads(ByteAt(t, i - 3 * k)) > k
        /\ \A j \in 1..(k - 1) : Continuation(t, i - 3 * j) >= 0

\* decodeURIComponent(t): every % starts an escape %XX of one byte, and the
\* bytes are read as UTF-8.  What position i gives: a character that is not
\* escaped is itself, the hex digits of an escape and the continuation bytes
\* of a sequence give nothing, a leading byte gives its code point.
decodedAt(t, i) ==
    IF t[i] # 37
    THEN (IF (i > 1 /\ t[i - 1] = 37) \/ (i > 2 /\ t[i - 2] = 37) THEN <<>> ELSE <<t[i]>>)
    ELSE IF Continuation(t, i) >= 0 THEN <<>>
    ELSE Units(CodePointAt(t, i))

\* URIError: a % without two hex digits, a byte that leads nothing and is
\* led by nothing, or a sequence that is not UTF-8.
Malformed(t, i) ==
    /\ t[i] = 37
    /\ \/ ByteAt(t, i) < 0
       \/ Continuation(t, i) >= 0 /\ ~Led(t, i)
       \/ Continuation(t, i) < 0 /\ CodePointAt(t, i) < 0

decodeURIComponent(t) ==
    IF \E i \in 1..Len(t) : Malformed(t, i) THEN Thrown
    ELSE Text(Flat([i \in 1..Len(t) |-> decodedAt(t, i)], 1, Len(t)))

\* JSON.parse: the value read and the position after it, or a SyntaxError.
\* Read are the texts JSON.stringify writes of strings, of the whole numbers
\* Date.getTime() gives, and of objects of them.
Fail == [ok |-> FALSE, value |-> <<>>, next |-> 0]
Parsed(value, next) == [ok |-> TRUE, value |-> value, next |-> next]

Unescape(c) ==
    IF c \in {34, 92, 47} THEN c
    ELSE IF c = 98 THEN 8 ELSE IF c = 116 THEN 9 ELSE IF c = 110 THEN 10
    ELSE IF c = 102 THEN 12 ELSE IF c = 114 THEN 13 ELSE 0 - 1

RECURSIVE parseString(_, _, _)
parseString(t, i, acc) ==
    IF i > Len(t) THEN Fail
    ELSE IF t[i] = 34 THEN Parsed(acc, i + 1)
    ELSE IF t[i] = 92
         THEN IF i + 1 > Len(t) THEN Fail
              ELSE IF t[i + 1] = 117
                   THEN IF i + 5 <= Len(t) /\ \A k \in 2..5 : HexVal(t[i + k]) >= 0
                        THEN parseString(t, i + 6,
                                 Append(acc, 4096 * HexVal(t[i + 2]) + 256 * HexVal(t[i + 3])
                                               + 16 * HexVal(t[i + 4]) + HexVal(t[i + 5])))
                        ELSE Fail
              ELSE IF Unescape(t[i + 1]) >= 0
                   THEN parseString(t, i + 2, Append(acc, Unescape(t[i + 1])))
              ELSE Fail
    ELSE IF t[i] < 32 THEN Fail
    ELSE parseString(t, i + 1, Append(acc, t[i]))

IsDigit(c) == c >= 48 /\ c <= 57

RECURSIVE parseNumber(_, _, _)
parseNumber(t, i, acc) ==
    IF i <= Len(t) /\ IsDigit(t[i]) THEN parseNumber(t, i + 1, acc * 10 + (t[i] - 48))
    ELSE Parsed(JNum(acc), i)

RECURSIVE parseValue(_, _)
RECURSIVE parseMembers(_, _, _)
parseValue(t, i) ==
    IF i > Len(t) THEN Fail
    ELSE IF t[i] = 34
         THEN LET r == parseString(t, i + 1, <<>>)
              IN  IF r.ok THEN Parsed(JStr(r.value), r.next) ELSE Fail
    ELSE IF IsDigit(t[i])
         THEN IF t[i] = 48 /\ i < Len(t) /\ IsDigit(t[i + 1]) THEN Fail
              ELSE parseNumber(t, i, 0)
    ELSE IF t[i] = 123
         THEN IF i < Len(t) /\ t[i + 1] = 125 THEN Parsed(JObj(<<>>), i + 2)
              ELSE parseMembers(t, i + 1, <<>>)
    ELSE Fail

parseMembers(t, i, acc) ==
    IF i > Len(t) \/ t[i] # 34 THEN Fail
    ELSE LET key == parseString(t, i + 1, <<>>)
         IN  IF ~key.ok \/ key.next > Len(t) \/ t[key.next] # 58 THEN Fail
             ELSE LET val == parseValue(t, key.next + 1)
                  IN  IF ~val.ok \/ val.next > Len(t) THEN Fail
                      ELSE IF t[val.next] = 44
                           THEN parseMembers(t, val.next + 1,
                                             Append(acc, Pair(key.value, val.value)))
                      ELSE IF t[val.next] = 125
                           THEN Parsed(JObj(Append(acc, Pair(key.value, val.value))),
                                       val.next + 1)
                      ELSE Fail

JSONparse(t) ==
    LET r == parseValue(t, 1)
    IN  IF r.ok /\ r.next = Len(t) + 1 THEN r ELSE Fail

\* The names of the keys, as texts.
K_userID == <<117, 115, 101, 114, 73, 68>>
K_userParams == <<117, 115, 101, 114, 80, 97, 114, 97, 109, 115>>
K_userCreateTime == <<117, 115, 101, 114, 67, 114, 101, 97, 116, 101, 84, 105, 109, 101>>
K_updatedTime == <<117, 112, 100, 97, 116, 101, 100, 84, 105, 109, 101>>
K_userAgent == <<117, 115, 101, 114, 65, 103, 101, 110, 116>>
K_referer == <<114, 101, 102, 101, 114, 101, 114>>
K_utm_source == <<117, 116, 109, 95, 115, 111, 117, 114, 99, 101>>
K_timestamp == <<116, 105, 109, 101, 115, 116, 97, 109, 112>>

\* navigator.userAgent ("Mozilla/5.0") and document.referrer (a direct visit).
UserAgent == <<77, 111, 122, 105, 108, 108, 97, 47, 53, 46, 48>>
Referrer == <<>>

\* _prepareRemotePayload without encodeURIComponent.
prepareRemotePayload_noUriEncoding(localData) ==
    LET data == localData \o <<Pair(K_userAgent, JStr(UserAgent)),
                               Pair(K_referer, JStr(Referrer))>>
        json == stringify(JObj(data))
        base64 == btoa(json)
    IN  IF base64.ok THEN [state |-> "made", data |-> base64.text]
        ELSE [state |-> "threw", data |-> <<>>]

\* _prepareRemotePayload(localData): { data: base64 }, or the exception of
\* encodeURIComponent or btoa.
prepareRemotePayload(localData) ==
    LET data == localData \o <<Pair(K_userAgent, JStr(UserAgent)),
                               Pair(K_referer, JStr(Referrer))>>
        json == stringify(JObj(data))
        encoded == encodeURIComponent(json)
        base64 == IF encoded.ok THEN btoa(encoded.text) ELSE Thrown
    IN  IF base64.ok THEN [state |-> "made", data |-> base64.text]
        ELSE [state |-> "threw", data |-> <<>>]

\* _decodeRemoteData(base64Data) on the text itself: the object, or null when
\* atob, decodeURIComponent or JSON.parse threw.
decodeRemoteText(base64Data) ==
    LET binary == atob(base64Data)
        json == IF binary.ok THEN decodeURIComponent(binary.text) ELSE Thrown
        parsed == IF json.ok THEN JSONparse(json.text) ELSE Fail
    IN  IF parsed.ok /\ parsed.value.t = "object"
        THEN [state |-> "object", value |-> parsed.value.v]
        ELSE [state |-> "null", value |-> <<>>]

\* The characters of the values: a, quote, backslash, %, space, newline,
\* e-acute, the euro sign, an emoji (a surrogate pair) and half of one.
Glyphs == {<<97>>, <<34>>, <<92>>, <<37>>, <<32>>, <<10>>, <<233>>, <<8364>>,
           <<55357, 56832>>, <<55357>>}

\* The longest id, in glyphs.
MaxChars == 2

RECURSIVE TextsOf(_)
TextsOf(n) ==
    IF n = 0 THEN {<<>>}
    ELSE LET shorter == TextsOf(n - 1)
         IN  shorter \cup {t \o g : t \in shorter, g \in Glyphs}

\* Readings of Date.getTime(), of one, two and ten digits.
Stamps == {7, 10, 1234567890}

\* The objects _getSyncableData hands over: each key present or not.
ParamObjects ==
    {<<Pair(K_utm_source, JStr(v))>> : v \in TextsOf(1)}
      \cup {<<Pair(K_utm_source, JStr(<<97>>)), Pair(K_timestamp, JNum(10))>>}

Optional(key, values) == {<<>>} \cup {<<Pair(key, v)>> : v \in values}

LocalRecords ==
    {id \o params \o created \o updated :
        id \in Optional(K_userID, {JStr(t) : t \in TextsOf(MaxChars) \ {<<>>}}),
        params \in Optional(K_userParams, {JObj(o) : o \in ParamObjects}),
        created \in Optional(K_userCreateTime, {JNum(1234567890)}),
        updated \in Optional(K_updatedTime, {JNum(n) : n \in Stamps})}

\* The steps that only make or decode a payload.
CodecOnly ==
    UNCHANGED <<SYNC_LOCK, store, calls, requests, taggerConfig, location,
                paramCookies, now, emitted, synced, server, peer, active,
                creating, mainCallback, called, initPc>>

InitCodec ==
    /\ SYNC_LOCK = FALSE
    /\ store = EmptyStore
    /\ calls = [i \in Calls |-> <<>>]
    /\ requests = [i \in Calls |-> 0]
    /\ taggerConfig = [remoteSync |-> TRUE, remoteEndpoint |-> "https://endpoint"]
    /\ location = NoMap
    /\ paramCookies = NoMap
    /\ now = 1
    /\ emitted = <<>>
    /\ last = [op |-> "load", outcome |-> "none"]
    /\ synced = 0
    /\ server = None
    /\ peer = NoPeer
    /\ active = 1
    /\ creating = [j \in Retrieves |-> None]
    /\ mainCallback = "null"
    /\ called = <<>>
    /\ initPc = "none"
    /\ record \in LocalRecords
    /\ wire = NotMade
    /\ decoded = NotRun

\* Line 468: the payload of the POST is made of the local record.
PrepareRemotePayload ==
    /\ wire.state = "none"
    /\ wire' = prepareRemotePayload(record)
    /\ last' = [op |-> "prepareRemotePayload", outcome |-> wire'.state]
    /\ UNCHANGED <<record, decoded>>
    /\ CodecOnly

\* The payload comes back as the data of a reply (lines 483, 518) and is
\* decoded.
DecodeRemoteData ==
    /\ wire.state = "made"
    /\ decoded.state = "none"
    /\ decoded' = decodeRemoteText(wire.data)
    /\ last' = [op |-> "decodeRemoteData", outcome |-> decoded'.state]
    /\ UNCHANGED <<record, wire>>
    /\ CodecOnly

NextCodec ==
    \/ PrepareRemotePayload
    \/ DecodeRemoteData

SpecCodec == InitCodec /\ [][NextCodec]_vars

\* The page's URL and cookies.  The query string has a tracked parameter, a
\* parameter that is not tracked, both or none; the __tg-param- cookies name a
\* tracked parameter, another key or the reserved timestamp, and one does not
\* decode.
UrlValue == "u"
CookieValue == "c"

Locations ==
    {EmptyMap} \cup {[k \in D |-> UrlValue] : D \in {{"utm_source"}, {"page"},
                                                     {"utm_source", "page"}}}

CookieJars ==
    {EmptyMap,
     [k \in {"utm_source"} |-> CookieValue],
     [k \in {"gclid"} |-> CookieValue],
     [k \in {"gclid"} |-> BadCookie],
     [k \in {"timestamp"} |-> CookieValue],
     [k \in {"utm_source", "gclid"} |-> CookieValue]}

\* The userParams a visit starts with: nothing, or what an earlier visit or
\* an applied remote record left.
StoredParams ==
    {None,
     Some([k \in {"timestamp"} |-> 1]),
     Some([k \in {"utm_source"} |-> LocalValue]),
     Some([k \in {"timestamp", "utm_source"} |-> IF k = "timestamp" THEN 1 ELSE LocalValue])}

InitParams ==
    /\ SYNC_LOCK = FALSE
    /\ \E sp \in StoredParams :
         store = [EmptyStore EXCEPT !.userParams = sp,
                                    !.updatedTime = IF sp = None THEN NULL ELSE 1]
    /\ calls = [i \in Calls |-> <<>>]
    /\ requests = [i \in Calls |-> 0]
    /\ taggerConfig \in Configs
    /\ location \in Locations
    /\ paramCookies \in CookieJars
    /\ now = 1
    /\ emitted = <<>>
    /\ last = [op |-> "load", outcome |-> "none"]
    /\ synced = 0
    /\ server = None
    /\ peer = NoPeer
    /\ active = 1
    /\ creating = [j \in Retrieves |-> None]
    /\ mainCallback = "null"
    /\ called = <<>>
    /\ initPc = "none"
    /\ NoRecord

\* The page goes to another URL of the site.
Navigate(url) ==
    /\ location' = url
    /\ last' = [op |-> "navigate", outcome |-> "none"]
    /\ emitted' = <<>>
    /\ called' = <<>>
    /\ UNCHANGED <<SYNC_LOCK, store, calls, requests, taggerConfig, paramCookies, now,
                   mainCallback>>

\* Another script of the site sets the __tg-param- cookies.
CookiesSet(jar) ==
    /\ paramCookies' = jar
    /\ last' = [op |-> "cookies", outcome |-> "none"]
    /\ emitted' = <<>>
    /\ called' = <<>>
    /\ UNCHANGED <<SYNC_LOCK, store, calls, requests, taggerConfig, location, now,
                   mainCallback>>

\* The calls that read and write userParams, on any URL and cookies, with a
\* sync that holds the lock for a while and fails.
NextParams ==
    \/ GetUserParams /\ OnePage /\ NoRetrieve
    \/ \E param \in ParamNames :
         SetUserParam(1, param, LocalValue, FALSE) /\ OnePage /\ NoRetrieve
    \/ \E url \in Locations : Navigate(url) /\ OnePage /\ NoRetrieve
    \/ \E jar \in CookieJars : CookiesSet(jar) /\ OnePage /\ NoRetrieve
    \/ SyncCall(1, FALSE) /\ OnePage /\ NoRetrieve
    \/ \E outcome \in {"throw", "notok"} :
         FetchSettles(1, outcome) /\ OnePage /\ NoRetrieve

SpecParams == InitParams /\ [][NextParams]_vars

\* ------------------------------------------------- two clients, one server
\* The endpoint keeps the record with the greatest clock it was sent.
serverClock(srv) == IF IsSome(srv) THEN Or(Get(srv).updatedTime, timestampOf(Get(srv).userParams)) ELSE 0

withData(srv) ==
    [updated |-> "false", updatedTime |-> serverClock(srv), data |-> "ok", payload |-> Get(srv)]

withoutData(srv, updated) ==
    [updated |-> updated, updatedTime |-> serverClock(srv), data |-> "none",
     payload |-> NoPayload]

\* What the endpoint may do with the request of a frame: the record it then
\* holds, and the body of its reply.  A POST with a greater clock is stored
\* and acknowledged; any other POST is answered with the record held.  A GET
\* is answered with the record held when its clock is greater than the clock
\* in the query (GET_CHECK) or when there is no query (GET_FULL); on equal
\* clocks the record may be sent or not.
serverReplies(srv, frame) ==
    IF frame.action = "POST"
    THEN LET clock == Or(frame.payload.updatedTime, timestampOf(frame.payload.userParams))
         IN  IF clock > serverClock(srv)
             THEN {[server |-> Some(frame.payload),
                    body |-> withoutData(Some(frame.payload), "true")]}
             ELSE IF IsSome(srv) THEN {[server |-> srv, body |-> withData(srv)]}
             ELSE {[server |-> srv, body |-> withoutData(srv, "false")]}
    ELSE IF ~IsSome(srv) THEN {[server |-> srv, body |-> withoutData(srv, "false")]}
    ELSE IF frame.action = "GET_FULL" \/ serverClock(srv) > frame.localUpdatedTime
         THEN {[server |-> srv, body |-> withData(srv)]}
    ELSE IF serverClock(srv) = frame.localUpdatedTime
         THEN {[server |-> srv, body |-> withData(srv)],
               [server |-> srv, body |-> withoutData(srv, "false")]}
    ELSE {[server |-> srv, body |-> withoutData(srv, "false")]}

\* The endpoint handles the request of the top frame.
ServerHandles(i) ==
    /\ ~Idle(i)
    /\ Top(i).pc = "fetch"
    /\ Top(i).reply = None
    /\ \E o \in serverReplies(server, Top(i)) :
         /\ server' = o.server
         /\ calls' = [calls EXCEPT ![i][Len(calls[i])].reply = Some(o.body)]
    /\ last' = [op |-> "server", outcome |-> Top(i).action]
    /\ emitted' = <<>>
    /\ called' = <<>>
    /\ UNCHANGED <<SYNC_LOCK, store, requests, taggerConfig, location, paramCookies, now,
                   mainCallback>>

\* The reply of the endpoint arrives.
ReplyArrives(i) ==
    /\ ~Idle(i)
    /\ Top(i).reply # None
    /\ FetchSettles(i, "ok")

\* The body of the reply is read and processed.
ReplyProcessed(i) ==
    /\ ~Idle(i)
    /\ Top(i).reply # None
    /\ JsonSettles(i, Get(Top(i).reply))

\* The other client takes its turn.
Switch ==
    /\ peer' = [lock |-> SYNC_LOCK, store |-> store, calls |-> calls,
                requests |-> requests, synced |-> synced]
    /\ SYNC_LOCK' = peer.lock
    /\ store' = peer.store
    /\ calls' = peer.calls
    /\ requests' = peer.requests
    /\ synced' = peer.synced
    /\ active' = 3 - active
    /\ emitted' = <<>>
    /\ called' = <<>>
    /\ last' = [op |-> "switch", outcome |-> "none"]
    /\ UNCHANGED <<taggerConfig, location, paramCookies, now, server, mainCallback>>

\* A client that has a full local record with clock t and has recorded the
\* remote clock r.
ClientStore(id, t, r) ==
    [userID |-> id,
     userParams |-> Some([k \in {"timestamp", "utm_source"} |->
                            IF k = "timestamp" THEN 1 ELSE LocalValue]),
     userCreateTime |-> 1, updatedTime |-> t, remoteUpdatedTime |-> r]

ServerRecords ==
    {[userID |-> "idR", userParams |-> Some([k \in {"timestamp"} |-> 1]),
      userCreateTime |-> 1, updatedTime |-> t] : t \in 1..MaxTime}

\* Two clients whose local clocks are equal; the endpoint holds nothing or
\* some record, and each client has recorded nothing or some remote clock.
InitTwo ==
    /\ server \in {None} \cup {Some(r) : r \in ServerRecords}
    /\ \E t \in 1..MaxTime :
         \E r1 \in {NULL} \cup Times :
           \E r2 \in {NULL} \cup Times :
             /\ store = ClientStore("idA", t, r1)
             /\ peer = [NoPeer EXCEPT !.store = ClientStore("idB", t, r2)]
    /\ SYNC_LOCK = FALSE
    /\ calls = [i \in Calls |-> <<>>]
    /\ requests = [i \in Calls |-> 0]
    /\ taggerConfig = [remoteSync |-> TRUE, remoteEndpoint |-> "https://endpoint"]
    /\ location = NoMap
    /\ paramCookies = NoMap
    /\ now = MaxTime
    /\ emitted = <<>>
    /\ last = [op |-> "load", outcome |-> "none"]
    /\ synced = 0
    /\ active = 1
    /\ creating = [j \in Retrieves |-> None]
    /\ mainCallback = "null"
    /\ called = <<>>
    /\ initPc = "none"
    /\ NoRecord

\* A sync that returns to its top-level caller is counted, up to MaxSynced.
Counted ==
    synced' = IF Idle(1)' /\ synced < MaxSynced THEN synced + 1 ELSE synced

\* Each client calls _syncRemoteData() again and again; every request is
\* answered.
NextTwo ==
    \/ SyncCall(1, FALSE) /\ UNCHANGED <<synced, server, peer, active>>
    \/ ServerHandles(1) /\ UNCHANGED <<synced, peer, active>>
    \/ ReplyArrives(1) /\ UNCHANGED <<synced, server, peer, active>>
    \/ ReplyProcessed(1) /\ Counted /\ UNCHANGED <<server, peer, active>>
    \/ Resume(1) /\ Counted /\ UNCHANGED <<server, peer, active>>
    \/ Switch

SpecTwo == InitTwo /\ [][NextTwo /\ NoRetrieve /\ NoInit /\ NoCodec]_vars

\* ------------------------------------------------------------------ claims
\* Invocation i holds a network request: it is between its lock() and its
\* return, awaiting fetch or response.json().
InFlight(i) == ~Idle(i) /\ Top(i).pc \in {"fetch", "json"}

\* C1: at most one invocation of _syncRemoteData has a network request in
\* flight at any time, whatever the interleaving at the await points.
C1_MutualExclusion == Cardinality({i \in Calls : InFlight(i)}) <= 1

\* The step just taken was a call of _syncRemoteData: a top-level one, or the
\* one setUserParam makes.
SyncCalled == last.op = "sync" \/ (last.op = "setUserParam" /\ last.outcome # "nosync")

\* C2: a call of _syncRemoteData that finds the lock held returns at once:
\* it issues no request, changes no persisted key and not the lock, and
\* leaves no frame (nothing pending) behind.
C2_ReentrancyDropped ==
    [][(SyncCalled' /\ SYNC_LOCK /\ remoteSyncEnabled(taggerConfig))
         => /\ last'.outcome = "dropped"
            /\ store' = store
            /\ SYNC_LOCK' = SYNC_LOCK
            /\ calls' = calls
            /\ requests' = requests]_vars

\* A call was dropped while another invocation held its request.
C2_Witness ==
    /\ last = [op |-> "sync", outcome |-> "dropped"]
    /\ SYNC_LOCK
    /\ \E i \in Calls : InFlight(i)

\* C3: whenever an invocation of _syncRemoteData that acquired the lock
\* returns, on whichever path, it leaves SYNC_LOCK false.
C3_LockReleased ==
    [][\A i \in Calls : Len(calls'[i]) < Len(calls[i]) => ~SYNC_LOCK']_vars

\* The invocation that re-synced has returned, after its recursive call did.
C3_Witness ==
    /\ last.op = "resume"
    /\ ~SYNC_LOCK
    /\ \A i \in Calls : Idle(i)

\* C4: while an invocation has a request in flight, no step other than the
\* processing of its own response changes a persisted key.
C4_ReadOnlyWindow ==
    [][\A i \in Calls :
         (InFlight(i) /\ InFlight(i)' /\ Len(calls'[i]) = Len(calls[i]))
            => store' = store]_vars


\* The clocks conflict resolution compares (lines 606-607).
LocalClock(st) == Or(getData(st, "updatedTime"), timestampOf(getData(st, "userParams")))
RemoteClock(p) == Or(p.updatedTime, timestampOf(p.userParams))

SameLocalRecord(st) ==
    /\ st.userID = store.userID
    /\ st.userParams = store.userParams
    /\ st.userCreateTime = store.userCreateTime
    /\ st.updatedTime = store.updatedTime

\* C5: whenever a reply is processed whose record has a clock less than or
\* equal to the local clock, userID, userParams, userCreateTime and
\* updatedTime are left as they were; a record is applied only when its clock
\* is strictly greater.
C5_StrictConflict ==
    \A body \in Bodies :
        (CanSettle(1, body) /\ body.data = "ok")
           => LET r == jsonSettled(1, body)
              IN  /\ RemoteClock(body.payload) <= LocalClock(store)
                        => SameLocalRecord(r.w.store)
                  /\ ~SameLocalRecord(r.w.store) \/ r.w.events # <<>>
                        => RemoteClock(body.payload) > LocalClock(store)

\* A reply carried a record that decoded and was not newer, with a local
\* clock that is set.
C5_Witness ==
    /\ last.op = "json"
    /\ last.outcome \in {"post-stale", "get-stale"}
    /\ LocalClock(store) = MaxTime

\* The action of the table: GET_FULL without local data, POST with local data
\* and (forceUpdate or a local clock newer than remoteUpdatedTime), GET_CHECK
\* otherwise.
PresentKeys(st) ==
    {k \in {"userID", "userParams", "userCreateTime", "updatedTime"} :
        IF k = "userID" THEN st[k] # ""
        ELSE IF k = "userParams" THEN st[k] # None
        ELSE st[k] > 0}

TableAction(st, forceUpdate) ==
    IF Cardinality(PresentKeys(st)) < 2 THEN "GET_FULL"
    ELSE IF forceUpdate \/ LocalClock(st) > getData(st, "remoteUpdatedTime") THEN "POST"
    ELSE "GET_CHECK"

\* C7: a call of _syncRemoteData(forceUpdate) that takes the lock issues the
\* request the action table gives for the persisted state and forceUpdate.
C7_ActionTable ==
    [][\A forceUpdate \in BOOLEAN :
         (~SYNC_LOCK /\ remoteSyncEnabled(taggerConfig) /\ SyncCall(1, forceUpdate))
            => /\ Len(calls'[1]) = 1
               /\ calls'[1][1].action = TableAction(store, forceUpdate)]_vars

\* setUserParam called _syncRemoteData() (forceUpdate false) with a local
\* clock above the recorded remote clock, and it chose POST.
C7_Witness ==
    /\ last = [op |-> "setUserParam", outcome |-> "POST"]
    /\ LocalClock(store) = 2
    /\ getData(store, "remoteUpdatedTime") = 1

\* C8: a GET_CHECK reply {updated: false}, without data, whose clock is below
\* the local clock of the snapshot makes exactly one recursive call, which
\* takes the lock and POSTs; no invocation nests deeper, and a top-level call
\* issues at most two requests, a GET_CHECK and then a POST.
NoDataBodies == {b \in ClockBodies : b.data = "none" /\ b.updated = "false"}

C8_Step ==
    \A i \in Calls : \A body \in NoDataBodies :
        (/\ CanSettle(i, body)
         /\ Top(i).action = "GET_CHECK"
         /\ Top(i).localUpdatedTime > body.updatedTime)
           => LET r == jsonSettled(i, body)
              IN  /\ Len(r.frames) = Len(calls[i]) + 1
                  /\ r.frames[Len(r.frames)].action = "POST"
                  /\ r.frames[Len(r.frames)].pc = "fetch"
                  /\ r.w.lock
                  /\ r.requests = requests[i] + 1

C8_Bound ==
    \A i \in Calls :
        /\ Len(calls[i]) <= 2
        /\ requests[i] <= 2
        /\ Len(calls[i]) = 2 =>
              /\ calls[i][1].action = "GET_CHECK"
              /\ calls[i][1].pc = "awaitRec"
              /\ calls[i][2].action = "POST"
              /\ requests[i] = 2

C8_BoundedRetry == C8_Step /\ C8_Bound

\* The recursive call is awaiting its POST.
C8_Witness ==
    \E i \in Calls :
        /\ Len(calls[i]) = 2
        /\ calls[i][2].action = "POST"
        /\ last = [op |-> "json", outcome |-> "get-resync"]

\* C9: a GET reply whose record decodes and has a clock strictly greater than
\* the local clock is applied: afterwards the local clock equals the remote
\* clock, and remoteSyncApplied was dispatched exactly once.
C9_RemoteNewerWinsOnGet ==
    [][\A body \in Bodies :
         (/\ CanSettle(1, body)
          /\ Top(1).action \in {"GET_FULL", "GET_CHECK"}
          /\ body.data = "ok"
          /\ RemoteClock(body.payload) > LocalClock(store)
          /\ JsonSettles(1, body))
            => /\ calls'[1] = <<>>
               /\ emitted' = <<"tagger:remoteSyncApplied">>
               /\ LocalClock(store') = RemoteClock(body.payload)]_vars

\* The step just taken was a transport failure: the fetch rejected, the
\* response was not 2xx, or response.json() threw.
TransportFailed ==
    \/ last.op = "fetch" /\ last.outcome \in {"throw", "notok"}
    \/ last.op = "json" /\ last.outcome = "throw"

\* C10: a transport failure changes no persisted key, dispatches no event,
\* returns to the caller (the frame is gone) and leaves the lock released.
C10_TransportFailureNeutral ==
    [][TransportFailed' =>
         /\ store' = store
         /\ emitted' = <<>>
         /\ ~SYNC_LOCK'
         /\ \E i \in Calls : calls'[i] = Pop(i)]_vars

\* A POST and a GET each failed with persisted data in place.
C10_Witness ==
    /\ TransportFailed
    /\ ~SYNC_LOCK
    /\ store.userID # ""
    /\ \A i \in Calls : Idle(i)


\* The branches of _syncRemoteData that call storeData or _applyRemoteData.
WritingBranches ==
    {"post-updated", "post-applied", "post-stale", "post-invalid", "get-applied"}

\* C6: two clients of one endpoint whose local clocks were equal: once each
\* has run one sync to its end, no step of a sync changes a persisted key,
\* applies a record or writes a clock, on either client.
C6_NoOscillation ==
    [][(synced >= 1 /\ peer.synced >= 1 /\ active' = active)
         => /\ store' = store
            /\ emitted' = <<>>
            /\ ~(last'.op = "json" /\ last'.outcome \in WritingBranches)]_vars

\* Both clients have synced twice, the second time after the first round.
C6_Witness ==
    /\ synced >= 2
    /\ peer.synced >= 2
    /\ last.op = "json"
    /\ Idle(1)
    /\ peer.store.updatedTime = store.updatedTime

\* What a reply leaves behind, apart from the line it logged.
Effects(r) ==
    [store |-> r.w.store, lock |-> r.w.lock, events |-> r.w.events,
     frames |-> r.frames, requests |-> r.requests]

\* C11: for every action and every reply, a reply whose data field does not
\* decode leaves the same persisted state, lock, events and follow-up request
\* as the same reply without the data field.
C11_DecodeFailureIsNoData ==
    \A body \in Bodies :
        (CanSettle(1, body) /\ body.data = "bad")
           => Effects(jsonSettled(1, body))
                = Effects(jsonSettled(1, [body EXCEPT !.data = "none"]))

\* C12: a storeData call made while SYNC_LOCK is set changes no persisted
\* key, and a setUserParam made while a sync has its request in flight leaves
\* userParams and updatedTime as they were.
C12_LockedWritesDropped ==
    [][/\ (SYNC_LOCK /\ last'.op \in {"getUserParams", "setUserParam"})
            => store' = store
       /\ ((\E i \in Calls : InFlight(i)) /\ last'.op = "setUserParam")
            => /\ store'.userParams = store.userParams
               /\ store'.updatedTime = store.updatedTime]_vars

\* C13: a POST reply with updated true leaves remoteUpdatedTime equal to the
\* updatedTime of the reply, and userID, userParams, userCreateTime and
\* updatedTime as they were.
C13_PostAckOnlyRemoteClock ==
    \A body \in Bodies :
        (CanSettle(1, body) /\ Top(1).action = "POST" /\ body.updated = "true")
           => LET r == jsonSettled(1, body)
              IN  /\ r.w.store.remoteUpdatedTime = body.updatedTime
                  /\ SameLocalRecord(r.w.store)
                  /\ r.w.events = <<>>

\* A POST was acknowledged with a clock and the local record is in place.
C13_Witness ==
    /\ last = [op |-> "json", outcome |-> "post-updated"]
    /\ store.remoteUpdatedTime = MaxTime
    /\ store.updatedTime = MaxTime
    /\ IsSome(store.userParams)

\* C14: a POST answered with updated false and a record whose clock is not
\* greater than the local clock (the clock the reply reports) records that
\* clock as remoteUpdatedTime, and a following _syncRemoteData() does not
\* select POST.
C14_PostSuppression ==
    \A body \in Bodies :
        (/\ CanSettle(1, body)
         /\ Top(1).action = "POST"
         /\ body.updated = "false"
         /\ body.data = "ok"
         /\ body.updatedTime = RemoteClock(body.payload)
         /\ RemoteClock(body.payload) > 0
         /\ RemoteClock(body.payload) <= LocalClock(store))
           => LET r == jsonSettled(1, body)
              IN  /\ r.w.store.remoteUpdatedTime = body.updatedTime
                  /\ selectAction(r.w.store, getSyncableData(r.w.store), FALSE) # "POST"

\* C15: once userID and userCreateTime are persisted, no step changes either.
C15_IdentityWriteOnce ==
    [][(getData(store, "userID") # "" /\ getData(store, "userCreateTime") # 0)
         => /\ store'.userID = store.userID
            /\ store'.userCreateTime = store.userCreateTime]_vars

\* C16: whenever _retrieveUserID(true) returns an id it has just derived, the
\* id, userCreateTime and updatedTime are persisted, so that the next call
\* returns that id; in every state in which the call can be made.
C16_CreatedIdPersisted ==
    [][last'.op = "userIDCreated"
         => /\ getData(store', "userID") = last'.outcome
            /\ getData(store', "userCreateTime") # 0
            /\ getData(store', "updatedTime") # 0]_vars

\* C17: from empty storage and without remote sync configured,
\* _retrieveUserID(true) persists the new id, leaves userCreateTime equal to
\* updatedTime, and dispatches userIDCreated exactly once.
C17_FirstCreation ==
    [][(last'.op = "userIDCreated" /\ store = EmptyStore
          /\ ~remoteSyncEnabled(taggerConfig))
         => /\ getData(store', "userID") = last'.outcome
            /\ store'.userCreateTime = store'.updatedTime
            /\ emitted' = <<"tagger:userIDCreated">>]_vars

\* C18: with no id stored, _retrieveUserID(false) / userExists() returns
\* null, writes nothing, dispatches no event, starts no sync and no creation.
C18_ExistenceCheckPure ==
    [][(last'.op = "userExists" /\ getData(store, "userID") = "")
         => /\ last'.outcome = "null"
            /\ store' = store
            /\ SYNC_LOCK' = SYNC_LOCK
            /\ emitted' = <<>>
            /\ calls' = calls
            /\ requests' = requests
            /\ creating' = creating]_vars

\* userExists() answered null with attribution data stored and no id.
C18_Witness ==
    /\ last = [op |-> "userExists", outcome |-> "null"]
    /\ store.userID = ""
    /\ IsSome(store.userParams)

\* The stored userParams object, {} when nothing is stored.
StoredMap == IF IsSome(getData(store, "userParams")) THEN Get(getData(store, "userParams")) ELSE EmptyMap

Addable ==
    {k \in ParamNames : k \in DOMAIN location /\ k \notin DOMAIN StoredMap}
      \cup {k \in DOMAIN paramCookies :
               k \notin DOMAIN StoredMap \cup {"timestamp"} /\ paramCookies[k] # BadCookie}

SyncStarted ==
    \E i \in Calls :
        /\ Idle(i)
        /\ Len(calls'[i]) = 1
        /\ calls'[i][1].pc = "fetch"
        /\ SYNC_LOCK'

\* What a call of setUserParam("utm_source", LocalValue, sync) leaves.
Overwritten ==
    /\ IsSome(store'.userParams)
    /\ "utm_source" \in DOMAIN Get(store'.userParams)
    /\ Get(store'.userParams)["utm_source"] = LocalValue
    /\ store'.updatedTime = now'

\* C21 (as amended): a call of setUserParam(name, value, sync) made while no
\* sync holds the lock leaves name mapped to value in the persisted
\* userParams, whatever it was mapped to, and updatedTime at the reading of
\* the clock it made; when sync is true and remote sync is configured, the
\* sync it started is pending when the call returns.
C21_OverwritesWhenUnlocked ==
    [][(last'.op = "setUserParam" /\ ~SYNC_LOCK) =>
         /\ Overwritten
         /\ (last'.outcome # "nosync" /\ remoteSyncEnabled(taggerConfig)) => SyncStarted
         /\ last'.outcome = "nosync" => UNCHANGED <<calls, requests, SYNC_LOCK>>]_vars

\* A sync started by setUserParam is pending, and the stored parameter, which
\* a remote record had set, is the value of the call.
C21_Witness ==
    /\ last.op = "setUserParam"
    /\ last.outcome \in {"POST", "GET_CHECK", "GET_FULL"}
    /\ ~Idle(1)
    /\ store.userID \in RemoteIDs
    /\ IsSome(store.userParams)
    /\ "utm_source" \in DOMAIN Get(store.userParams)
    /\ Get(store.userParams)["utm_source"] = LocalValue
    /\ store.updatedTime = now

\* C21 (as stated): every call of setUserParam leaves name mapped to value
\* and updatedTime refreshed.
C21_UnconditionalOverwrite ==
    [][last'.op = "setUserParam" => Overwritten]_vars

\* window.taggerConfig.remoteSync or .remoteEndpoint is missing or falsy.
NotConfigured == taggerConfig.remoteSync = FALSE \/ taggerConfig.remoteEndpoint = ""

\* C22: when remoteSync or remoteEndpoint is missing or falsy, no call of
\* _syncRemoteData, whatever its forceUpdate, takes the lock, issues a request
\* or changes a persisted key: the lock is never held, no invocation is ever
\* pending, and a call leaves the lock, the store and the requests as they
\* were and dispatches nothing.
C22_NoOpWhenNotConfigured ==
    /\ [](NotConfigured =>
            /\ ~SYNC_LOCK
            /\ \A i \in Calls : Idle(i) /\ requests[i] = 0)
    /\ [][(NotConfigured /\ last'.op = "sync") =>
            /\ UNCHANGED <<SYNC_LOCK, store, calls, requests>>
            /\ emitted' = <<>>]_vars

\* _syncRemoteData was called without configuration on local data a
\* configured sync would send.
C22_Witness ==
    /\ NotConfigured
    /\ last.op = "sync"
    /\ last.outcome = "disabled"
    /\ hasLocalData(getSyncableData(store))
    /\ isLocalDataNewer(store, getSyncableData(store))

\* The persisted keys st hold record p wherever p has a field, and what
\* before held wherever it has none.
HoldsRecord(st, p, before) ==
    /\ st.userID = IF p.userID # "" THEN p.userID ELSE before.userID
    /\ st.userParams = IF IsSome(p.userParams) THEN p.userParams ELSE before.userParams
    /\ st.userCreateTime =
          IF p.userCreateTime # 0 THEN p.userCreateTime ELSE before.userCreateTime
    /\ st.updatedTime = IF p.updatedTime # 0 THEN p.updatedTime ELSE before.updatedTime
    /\ st.remoteUpdatedTime =
          IF p.updatedTime # 0 THEN p.updatedTime ELSE before.remoteUpdatedTime

\* The reply makes _syncRemoteData write: the POST branch records
\* remoteUpdatedTime (lines 476, 490) or applies (line 486), the GET branch
\* applies (line 523).
RecordsClock(frame, body) ==
    /\ frame.action = "POST"
    /\ \/ body.updated = "true"
       \/ body.data = "bad"
       \/ body.data = "ok" /\ RemoteClock(body.payload) <= LocalClock(store)

Applies(frame, body) ==
    /\ body.data = "ok"
    /\ RemoteClock(body.payload) > LocalClock(store)
    /\ frame.action = "POST" => body.updated # "true"

\* C25: on every reply after which _syncRemoteData writes, the write takes
\* effect in the step that processes the reply, with the lock held by the
\* sync until then: remoteUpdatedTime is the reply's updatedTime on the
\* recording paths, and on the applying paths the record is stored and
\* remoteSyncApplied is dispatched.
C25_OwnWritesTakeEffect ==
    \A body \in Bodies :
        CanSettle(1, body)
           => LET r == jsonSettled(1, body)
              IN  /\ SYNC_LOCK
                  /\ RecordsClock(Top(1), body)
                        => r.w.store.remoteUpdatedTime = body.updatedTime
                  /\ Applies(Top(1), body)
                        => /\ HoldsRecord(r.w.store, body.payload, store)
                           /\ r.w.events = <<"tagger:remoteSyncApplied">>

\* A record was applied after a GET, and its fields are stored.
C25_Witness ==
    /\ last = [op |-> "json", outcome |-> "get-applied"]
    /\ emitted = <<"tagger:remoteSyncApplied">>
    /\ store.userID \in RemoteIDs
    /\ store.remoteUpdatedTime = MaxTime
    /\ ~SYNC_LOCK

\* C26: _applyRemoteData(payload), run unlocked on any reachable persisted
\* state, leaves each of userID, userParams, userCreateTime and updatedTime
\* that the payload has equal to the payload's value (userParams as a whole),
\* remoteUpdatedTime equal to the payload's updatedTime when it has one, and
\* every key the payload lacks as it was.
C26_ApplyOverwritesFieldwise ==
    \A p \in Payloads :
        LET w == applyRemoteData(unlock(World), p)
        IN  /\ HoldsRecord(w.store, p, store)
            /\ w.events = <<"tagger:remoteSyncApplied">>

\* A record with userParams and without an id was applied over stored
\* userParams that had a timestamp: the stored object is the remote one, and
\* the id is the one an earlier record left.
C26_Witness ==
    /\ last.op = "json"
    /\ last.outcome \in {"get-applied", "post-applied"}
    /\ store.userParams = Some([k \in {"utm_source"} |-> RemoteValue])
    /\ store.userID \in RemoteIDs
    /\ store.userCreateTime = NULL
    /\ store.updatedTime = MaxTime

\* The steps of _syncRemoteData: its call, and the settling of its awaits.
SyncSteps == {"sync", "fetch", "json", "resume"}

\* C29: no step of _syncRemoteData, whatever the reply, leaves the persisted
\* updatedTime below what it was; so from its call to its return, without
\* local writes in between, a sync does not move the local clock backwards.
C29_ClockNotBackwards ==
    [][last'.op \in SyncSteps =>
         getData(store', "updatedTime") >= getData(store, "updatedTime")]_vars

\* A POST of local data was answered with a newer record, which was applied:
\* updatedTime moved up to the record's.
C29_Witness ==
    /\ last = [op |-> "json", outcome |-> "post-applied"]
    /\ store.updatedTime = MaxTime
    /\ store.remoteUpdatedTime = MaxTime
    /\ Idle(1)

\* C30: once a reply's record has been applied, the same record no longer
\* passes the newer-than-local test, so a following sync that receives it
\* does not apply it again.
C30_ApplyNotRepeated ==
    \A body \in Bodies :
        (CanSettle(1, body) /\ Applies(Top(1), body))
           => ~isRemoteDataNewer(jsonSettled(1, body).w.store, body.payload)

\* The notifications the documentation lists for registerCallback.
Notifications == {"tagger:userIDCreated", "tagger:remoteSyncApplied"}

\* C23: every userIDCreated and remoteSyncApplied notification a step emits
\* is dispatched on window and, when a callback is registered, is also
\* delivered to that callback by the same step.
C23_NotificationsReachCallback ==
    \A k \in 1..Len(emitted) :
        (emitted[k] \in Notifications /\ mainCallback = "function")
           => \E j \in 1..Len(called) : called[j] = emitted[k]

\* The sync _init awaits was answered with a record that has an id and a
\* positive clock.
Adoptable(body) ==
    /\ body.data = "ok"
    /\ body.payload.userID # ""
    /\ RemoteClock(body.payload) > 0

\* C27: in _init on empty storage with remote sync configured, (a) when
\* _retrieveUserID() is called the sync has returned: no request is pending
\* and the lock is free; (b) a reply with a record that has an id and a
\* positive clock leaves that id stored, and from then on _init derives no
\* id, dispatches no userIDCreated and keeps the id; (c) a sync that failed
\* has returned with the lock free, so _init goes on, and when _init is
\* through an id is stored.
C27_InitReconcilesFirst ==
    /\ [][(remoteSyncEnabled(taggerConfig) /\ initPc = "sync" /\ initPc' = "retrieve")
            => /\ \A i \in Calls : Idle(i)
               /\ ~SYNC_LOCK]_vars
    /\ [](\A body \in Bodies :
            (initPc = "sync" /\ CanSettle(1, body) /\ Adoptable(body))
               => jsonSettled(1, body).w.store.userID = body.payload.userID)
    /\ [][(store.userID \in RemoteIDs /\ initPc \in {"sync", "retrieve"})
            => /\ store'.userID = store.userID
               /\ creating' = creating
               /\ \A j \in Retrieves : creating[j] = None
               /\ \A k \in 1..Len(emitted') : emitted'[k] # "tagger:userIDCreated"]_vars
    /\ []((initPc = "sync" /\ TransportFailed) => (Idle(1) /\ ~SYNC_LOCK))
    /\ [](initPc \in {"ready", "autoSync"} => store.userID # "")

\* _init is through and the visitor has the id of the remote record; no id
\* was created (nothing stored a creation time).
C27_Witness ==
    /\ remoteSyncEnabled(taggerConfig)
    /\ initPc = "ready"
    /\ store.userID \in RemoteIDs
    /\ store.userCreateTime = NULL
    /\ store.updatedTime > 0

\* The call of _syncRemoteData just made returned at line 436.
Dropped == last.outcome = "dropped"

\* The local clock is strictly above the recorded remote clock.
LocalNewer == LocalClock(store) > getData(store, "remoteUpdatedTime")

\* The timer's call of _syncRemoteData just took the lock and POSTed.
TimerPosts ==
    /\ last = [op |-> "sync", outcome |-> "POST"]
    /\ SYNC_LOCK
    /\ \E i \in Calls : ~Idle(i) /\ Top(i).action = "POST" /\ Top(i).pc = "fetch"

\* C28 (as amended): with the timer running and every network call
\* settling, a dropped call made while the local clock is above the recorded
\* remote clock is followed by a tick that takes the lock and POSTs, unless
\* the recorded remote clock has caught up with the local clock before.
C28_DroppedWorkRetried == (Dropped /\ LocalNewer) ~> (TimerPosts \/ ~LocalNewer)

\* A tick was dropped with the local clock above the recorded remote clock.
C28_Witness ==
    /\ last = [op |-> "sync", outcome |-> "dropped"]
    /\ LocalNewer
    /\ SYNC_LOCK

\* C28 (as stated): such a dropped call is always followed by a tick that
\* takes the lock and POSTs.
C28_DroppedAlwaysPosted == (Dropped /\ LocalNewer) ~> TimerPosts

\* The keys of a visitor's record.
RecordKeys == {K_userID, K_userParams, K_userCreateTime, K_updatedTime}

\* C24: a payload is made of every record, and decoding it gives an object
\* whose userID, userParams, userCreateTime and updatedTime are those of the
\* record: present with the same value, or absent as in the record.
C24_PayloadRoundTrip ==
    /\ wire.state # "threw"
    /\ decoded.state # "none" =>
          /\ decoded.state = "object"
          /\ \A key \in RecordKeys : Member(decoded.value, key) = Member(record, key)

\* A record with all four keys, whose id is a euro sign and a quote, went
\* through the payload and came back.
C24_Witness ==
    /\ decoded.state = "object"
    /\ Len(record) = 4
    /\ Member(record, K_userID) = {JStr(<<8364, 34>>)}
    /\ Len(wire.data) > 100

\* C31: when two calls of _retrieveUserID(true) overlap at the await of
\* createNewUserID and one of them has just created and persisted an id, the
\* other, on resuming, creates no second id: the persisted id stays, the call
\* returns it, and userIDCreated is not dispatched again.
C31_IdCreationRaceFree ==
    [][\A j \in Retrieves :
         (/\ creating[j] # None
          /\ creating'[j] = None
          /\ last.op = "userIDCreated"
          /\ getData(store, "userID") = last.outcome)
           => /\ getData(store', "userID") = getData(store, "userID")
              /\ last'.outcome = getData(store, "userID")
              /\ \A n \in 1..Len(emitted') :
                    emitted'[n] # "tagger:userIDCreated"]_vars

====
